---- MODULE Spec2Model ----
(***************************************************************************)
(* Tabular transformation layer of the public-data dashboard:              *)
(*   - should_use_dual_axis, make_combined_chart, resample_data and the    *)
(*     query step of render            (pages/modulo_sgs.py)               *)
(*   - build_ranking_data, filter_institutions, _load_latest_data,         *)
(*     render_ranking_tab, render_bank_tab   (pages/modulo_ifdata.py)      *)
(*   - get_latest_data, _load_all_latest, _render_ranking, _render_bank    *)
(*                                     (pages/modulo_taxas.py)             *)
(* Each function is a function of its input tables.  A specification draws *)
(* the input tables from bounded sets in its initial states and has one    *)
(* action per function or handler, which applies it as the code computes   *)
(* it.                                                                     *)
(*                                                                         *)
(* Conventions.  A cell of a table is <<>> (NaN / None / NaT) or <<v>>     *)
(* with v an integer.  Series values of the charted SGS table are counted  *)
(* in tenths (12 stands for 1.2); amounts of the IfDataValores tables are  *)
(* whole numbers and the ratio derived from them is counted in hundredths  *)
(* (1437 stands for 14.37); the wide table of the ranking and bank tabs    *)
(* holds whole units; values of the resampled series and of the default   *)
(* rates are doubles.  Arithmetic the code does on floats is done on       *)
(* doubles where the rounding can show in the result.  Variable names are  *)
(* the source's names written in ASCII.                                    *)
(***************************************************************************)
EXTENDS Integers, Sequences, FiniteSets, TLC

VARIABLES
    pc,           \* "input": arguments chosen, function not yet called; "done"
    df,           \* modulo_sgs: the table given to should_use_dual_axis and
                  \*   make_combined_chart, df[col] = the cells of column col
    columns,      \* modulo_sgs: the requested column list
    axis,         \* modulo_sgs: the tuple returned by should_use_dual_axis
    df_plot,      \* modulo_sgs: make_combined_chart's forward-filled table
    log10_ties,   \* modulo_sgs: how np.log10 rounds, see GapGreater and
                  \*   GapTooSmall
    df_cadastro,  \* modulo_ifdata: IfDataCadastro rows
    df_resumo,    \* modulo_ifdata: IfDataValores rows of report Resumo
    df_ativo,     \* modulo_ifdata: IfDataValores rows of report Ativo
    records,      \* modulo_ifdata: build_ranking_data's list `records`
    loaded,       \* modulo_ifdata: the table build_ranking_data returned
                  \*   (None: _load_latest_data returned before calling it)
    df_rates,     \* modulo_taxas: the table fetched for the modality, given
                  \*   to get_latest_data
    mod,          \* modulo_taxas: the selected modality
    date_col,     \* modulo_taxas: the date column given to get_latest_data
    df_latest,    \* modulo_taxas: the table returned by get_latest_data
    results,      \* modulo_taxas: what _load_all_latest gave its caller
    df_ranking,   \* modulo_ifdata: the wide table of the ranking/bank tabs
    rank_var,     \* modulo_ifdata: the variable `var` being ranked
    df_top,       \* modulo_ifdata: rows of the left ("largest") table
    df_bottom,    \* modulo_ifdata: rows of the right ("smallest") table
    label_left,   \* modulo_ifdata: translation key of the left table's label
    label_right,  \* modulo_ifdata: translation key of the right table's label
    df_mod,       \* modulo_taxas: data[mod], the modality's latest snapshot
    df_sorted_desc, \* modulo_taxas: rows of the highest-rates table
    df_sorted_asc,  \* modulo_taxas: rows of the lowest-rates table
    selected_bank,  \* both bank tabs: the bank chosen in the selectbox
    pos_str,      \* both bank tabs: the position shown, [rank, n] or "dash"
    sgs_df,       \* modulo_sgs.render: the table fetch_sgs_data returned
    resample_value, \* modulo_sgs.render: "original", "M" or "A"
    sgs_data,     \* modulo_sgs.render: st.session_state.sgs_data
    again,        \* modulo_sgs: resample_data applied to sgs_data once more
    state_data,   \* modulo_inad: UF -> [pf, pj], the latest values fetched
    factors,      \* modulo_inad.make_brazil_map: UF -> shading factor
    fill_colors,  \* modulo_inad.make_brazil_map: UF -> fill_color
    fetch_outcome,\* remote service: fetch key -> data, empty or error
    handler,      \* <<name, argument>> of the handler that ran the fetches
    attempted,    \* the fetch keys the handler called
    fetch_values,  \* the handler's result: fetch key -> data, empty or none
    current_page, \* app: st.session_state.current_page
    session_state,\* query results kept in st.session_state, 0 for an absent key
    fetch_count,  \* number of queries sent so far, the newest result is numbered by it
    shown,        \* the result each view displayed in the last run, 0 for none
    event,         \* the widget event of the last run: [kind, ok]
    sgs_series_list,\* modulo_sgs: st.session_state.sgs_series_list
    list_op,       \* the last operation on the list: [kind, parts]
    spi_queried,  \* modulo_spi: st.session_state.spi_queried (absent, false or true)
    spi_dates,    \* modulo_spi: the start and end date widgets
    spi_view,     \* modulo_spi: what the last run displayed
    spi_event,    \* modulo_spi: the widget event of the last run
    spi_fetches,   \* modulo_spi: calls of fetch_spi_data so far
    today,        \* find_latest_quarter: date.today() as [y, m]
    quarter_answers, \* remote service: the answer for the i-th candidate
    candidates,   \* find_latest_quarter: the candidate periods
    tried,        \* find_latest_quarter: fetches made
    latest_quarter, \* find_latest_quarter: the returned period, 0 before
    dl_start,     \* render_download_tab: the start period typed
    dl_end,       \* render_download_tab: the end period typed
    dl_cursor,    \* render_download_tab: y, m of the period loop
    periods       \* render_download_tab: the periods generated

axisVars == <<df, columns, axis, df_plot, log10_ties>>
rankingVars == <<df_cadastro, df_resumo, df_ativo, records, loaded>>
latestVars == <<df_rates, mod, date_col, df_latest, results>>
viewVars == <<df_ranking, rank_var, df_top, df_bottom, label_left,
              label_right, df_mod,
              df_sorted_desc, df_sorted_asc, selected_bank, pos_str>>
sgsVars == <<sgs_df, resample_value, sgs_data, again>>
mapVars == <<state_data, factors, fill_colors>>
earlyVars == <<axisVars, rankingVars, latestVars, viewVars, sgsVars>>
fetchVars == <<fetch_outcome, handler, attempted, fetch_values>>
sessionVars == <<current_page, session_state, fetch_count, shown, event>>
seriesVars == <<sgs_series_list, list_op>>
spiVars == <<spi_queried, spi_dates, spi_view, spi_event, spi_fetches>>
quarterVars == <<today, quarter_answers, candidates, tried, latest_quarter>>
downloadVars == <<dl_start, dl_end, dl_cursor, periods>>
lateVars == <<mapVars, fetchVars, sessionVars, seriesVars, spiVars,
    quarterVars, downloadVars>>
restOfMap == <<earlyVars, fetchVars, sessionVars, seriesVars, spiVars,
    quarterVars, downloadVars>>
restOfFetch == <<earlyVars, mapVars, sessionVars, seriesVars, spiVars,
    quarterVars, downloadVars>>
restOfSession == <<earlyVars, mapVars, fetchVars, seriesVars, spiVars,
    quarterVars, downloadVars>>
restOfSeries == <<earlyVars, mapVars, fetchVars, sessionVars, spiVars,
    quarterVars, downloadVars>>
restOfSpi == <<earlyVars, mapVars, fetchVars, sessionVars, seriesVars,
    quarterVars, downloadVars>>
restOfQuarter == <<earlyVars, mapVars, fetchVars, sessionVars, seriesVars,
    spiVars, downloadVars>>
restOfDownload == <<earlyVars, mapVars, fetchVars, sessionVars, seriesVars,
    spiVars, quarterVars>>
vars == <<pc, axisVars, rankingVars, latestVars, viewVars, sgsVars, lateVars>>

(***************************************************************************)
(* Cells and small helpers                                                 *)
(***************************************************************************)
NaN == <<>>
Num(v) == <<v>>
isna(c) == c = NaN
notna(c) == c # NaN
Val(c) == c[1]
Abs(n) == IF n < 0 THEN 0 - n ELSE n
None == [kind |-> "None"]

Elems(s) == {s[i] : i \in 1..Len(s)}

(***************************************************************************)
(* Bounds of the model                                                     *)
(***************************************************************************)
MaxCols == 3        \* columns charted together
MaxObs == 17        \* observations of a long column
MaxRateRows == 3    \* rows of the interest-rate table
MaxInst == 2        \* rows of the IfDataCadastro table
MaxValueRows == 2   \* rows of the two IfDataValores tables together

(***************************************************************************)
(* Python float: IEEE 754 binary64, rounding to nearest, ties to even      *)
(***************************************************************************)
\* A natural number of any size is the sequence of its digits in base
\* 2^15, least significant first, without a leading zero digit; <<>> is 0.
DigitBase == 2 ^ 15

Digit(x, i) == IF i <= Len(x) THEN x[i] ELSE 0
Rest(x) == IF x = <<>> THEN x ELSE Tail(x)

RECURSIVE BigTrim(_)
BigTrim(x) ==
    IF x # <<>> /\ x[Len(x)] = 0 THEN BigTrim(SubSeq(x, 1, Len(x) - 1))
    ELSE x

RECURSIVE BigOfInt(_)
BigOfInt(n) ==
    IF n = 0 THEN <<>> ELSE <<n % DigitBase>> \o BigOfInt(n \div DigitBase)

RECURSIVE IntOfBig(_)
IntOfBig(x) == IF x = <<>> THEN 0 ELSE x[1] + DigitBase * IntOfBig(Tail(x))

RECURSIVE BigAddC(_, _, _)
BigAddC(x, y, carry) ==
    IF x = <<>> /\ y = <<>> THEN (IF carry = 0 THEN <<>> ELSE <<carry>>)
    ELSE LET s == Digit(x, 1) + Digit(y, 1) + carry
         IN <<s % DigitBase>> \o BigAddC(Rest(x), Rest(y), s \div DigitBase)
BigAdd(x, y) == BigAddC(x, y, 0)

\* x - y for x >= y
RECURSIVE BigSubB(_, _, _)
BigSubB(x, y, borrow) ==
    IF x = <<>> THEN <<>>
    ELSE LET d == x[1] - Digit(y, 1) - borrow
         IN <<IF d < 0 THEN d + DigitBase ELSE d>>
            \o BigSubB(Tail(x), Rest(y), IF d < 0 THEN 1 ELSE 0)
BigSub(x, y) == BigTrim(BigSubB(x, y, 0))

\* -1, 0 or 1 as x is below, equal to or above y
RECURSIVE BigCmpAt(_, _, _)
BigCmpAt(x, y, i) ==
    IF i = 0 THEN 0
    ELSE IF x[i] < y[i] THEN 0 - 1
    ELSE IF x[i] > y[i] THEN 1
    ELSE BigCmpAt(x, y, i - 1)
BigCmp(x, y) ==
    IF Len(x) < Len(y) THEN 0 - 1
    ELSE IF Len(x) > Len(y) THEN 1
    ELSE BigCmpAt(x, y, Len(x))

\* x * d + carry for one digit d
RECURSIVE BigMulD(_, _, _)
BigMulD(x, d, carry) ==
    IF x = <<>> THEN (IF carry = 0 THEN <<>> ELSE <<carry>>)
    ELSE LET p == x[1] * d + carry
         IN <<p % DigitBase>> \o BigMulD(Tail(x), d, p \div DigitBase)
RECURSIVE BigMulR(_, _)
BigMulR(x, y) ==
    IF y = <<>> THEN <<>>
    ELSE BigAdd(BigMulD(x, y[1], 0), <<0>> \o BigMulR(x, Tail(y)))
BigMul(x, y) == BigTrim(BigMulR(x, y))

\* x * 2^n and floor(x / 2^n)
BigShl(x, n) ==
    IF x = <<>> THEN <<>>
    ELSE [i \in 1..(n \div 15) |-> 0]
         \o BigMulD(x, 2 ^ (n % 15), 0)
BigShr(x, n) ==
    LET drop == n \div 15
        bits == n % 15
        y == SubSeq(x, drop + 1, Len(x))
    IN BigTrim([i \in 1..Len(y) |->
                   (y[i] \div 2 ^ bits)
                   + (Digit(y, i + 1) % 2 ^ bits) * 2 ^ (15 - bits)])

RECURSIVE BitsOf(_)
BitsOf(d) == IF d = 0 THEN 0 ELSE 1 + BitsOf(d \div 2)
BitLen(x) ==
    IF x = <<>> THEN 0 ELSE 15 * (Len(x) - 1) + BitsOf(x[Len(x)])

\* A double is sg * m * 2^e with sg 1 or -1 and a significand of 53 bits,
\* 2^52 <= m < 2^53; zero has m = 0.  Infinities, NaN and subnormal numbers
\* are outside the model.
FZero == [sg |-> 1, m |-> <<>>, e |-> 0]

\* the nearest integer to n * 2^e (n a natural number), halves to the even
\* neighbour, as a natural number of any size
RoundShift(n, e) ==
    IF e >= 0 THEN BigShl(n, e)
    ELSE LET q == BigShr(n, 0 - e)
             c == BigCmp(BigSub(n, BigShl(q, 0 - e)), BigShl(<<1>>, 0 - e - 1))
         IN IF c > 0 \/ (c = 0 /\ Digit(q, 1) % 2 = 1) THEN BigAdd(q, <<1>>)
            ELSE q

\* the double nearest to sg * n * 2^e
FRound(sg, n, e) ==
    IF n = <<>> THEN FZero
    ELSE LET s == BitLen(n) - 53
             m == RoundShift(n, 0 - s)
         IN IF BitLen(m) > 53
            THEN [sg |-> sg, m |-> BigShr(m, 1), e |-> e + s + 1]
            ELSE [sg |-> sg, m |-> m, e |-> e + s]

FNeg(a) == IF a.m = <<>> THEN a ELSE [a EXCEPT !.sg = 0 - a.sg]
FMul(a, b) ==
    IF a.m = <<>> \/ b.m = <<>> THEN FZero
    ELSE FRound(a.sg * b.sg, BigMul(a.m, b.m), a.e + b.e)
FAdd(a, b) ==
    IF a.m = <<>> THEN b
    ELSE IF b.m = <<>> THEN a
    ELSE LET e == IF a.e < b.e THEN a.e ELSE b.e
             x == BigShl(a.m, a.e - e)
             y == BigShl(b.m, b.e - e)
             c == BigCmp(x, y)
         IN IF a.sg = b.sg THEN FRound(a.sg, BigAdd(x, y), e)
            ELSE IF c = 0 THEN FZero
            ELSE IF c > 0 THEN FRound(a.sg, BigSub(x, y), e)
            ELSE FRound(b.sg, BigSub(y, x), e)
FSub(a, b) == FAdd(a, FNeg(b))
\* a < b
FLess(a, b) ==
    IF a.sg # b.sg THEN a.sg < b.sg
    ELSE IF a.m = <<>> \/ b.m = <<>>
         THEN (IF a.sg = 1 THEN a.m = <<>> /\ b.m # <<>>
               ELSE a.m # <<>> /\ b.m = <<>>)
    ELSE LET c == IF a.e # b.e THEN (IF a.e < b.e THEN 0 - 1 ELSE 1)
                  ELSE BigCmp(a.m, b.m)
         IN IF a.sg = 1 THEN c < 0 ELSE c > 0

\* float(n) for an integer n
FromInt(n) == FRound(IF n < 0 THEN 0 - 1 ELSE 1,
                     BigOfInt(IF n < 0 THEN 0 - n ELSE n), 0)

\* the next k binary digits of r / d for 0 <= r < d: [q, r] with
\* r * 2^k = q * d + r'
RECURSIVE BinaryDigits(_, _, _, _)
BinaryDigits(r, d, k, q) ==
    IF k = 0 THEN [q |-> q, r |-> r]
    ELSE IF 2 * r >= d THEN BinaryDigits(2 * r - d, d, k - 1, 2 * q + 1)
    ELSE BinaryDigits(2 * r, d, k - 1, 2 * q)
\* floor(r * 2^(15 * k) / d) as k digits, least significant first, followed
\* by the remainder
RECURSIVE QuotientDigits(_, _, _)
QuotientDigits(r, d, k) ==
    IF k = 0 THEN <<r>>
    ELSE LET step == BinaryDigits(r, d, 15, 0)
         IN QuotientDigits(step.r, d, k - 1) \o <<step.q>>
\* float(n) / float(d) for integers n and d # 0: the double nearest to the
\* quotient, from 90 binary places and the fact that more follow
FromFrac(n, d) ==
    LET nn == IF n < 0 THEN 0 - n ELSE n
        dd == IF d < 0 THEN 0 - d ELSE d
        digits == QuotientDigits(nn % dd, dd, 6)
        whole == BigTrim(Tail(digits) \o BigOfInt(nn \div dd))
        sticky == IF Head(digits) = 0 THEN <<>> ELSE <<1>>
    IN FRound(IF (n < 0) = (d < 0) THEN 1 ELSE 0 - 1,
              BigAdd(BigShl(whole, 1), sticky), 0 - 91)

\* int(a): truncation towards zero
FTrunc(a) ==
    IF a.e >= 0 THEN a.sg * IntOfBig(BigShl(a.m, a.e))
    ELSE a.sg * IntOfBig(BigShr(a.m, 0 - a.e))
\* round(a, 2), counted in hundredths: the integer nearest to 100 * a,
\* halves to the even one
FRound2(a) == a.sg * IntOfBig(RoundShift(BigMulD(a.m, 100, 0), a.e))

\* floor(x / d) and the remainder, for one digit d > 0
RECURSIVE BigDivD(_, _)
BigDivD(x, d) ==
    IF x = <<>> THEN [q |-> <<>>, r |-> 0]
    ELSE LET hi == BigDivD(Tail(x), d)
             cur == hi.r * DigitBase + x[1]
         IN [q |-> <<cur \div d>> \o hi.q, r |-> cur % d]
\* a / n for a double a and an integer 0 < n < 2^15 (the integer is
\* converted without loss): the double nearest to the quotient, from 30
\* binary places more than a has and the fact that more follow
FDivInt(a, n) ==
    IF a.m = <<>> THEN FZero
    ELSE LET dv == BigDivD(BigShl(a.m, 30), n)
             sticky == IF dv.r = 0 THEN <<>> ELSE <<1>>
         IN FRound(a.sg, BigAdd(BigShl(BigTrim(dv.q), 1), sticky), a.e - 31)

\* the sum of a sequence of doubles, added from left to right
RECURSIVE FloatSum(_, _)
FloatSum(vals, acc) ==
    IF vals = <<>> THEN acc
    ELSE FloatSum(Tail(vals), FAdd(acc, Head(vals)))

\* the largest q <= guess with q * d <= x
RECURSIVE BigDivGuess(_, _, _)
BigDivGuess(x, d, guess) ==
    IF BigCmp(BigTrim(BigMulD(d, guess, 0)), x) > 0
    THEN BigDivGuess(x, d, guess - 1)
    ELSE guess
\* the next digit of r / d for 0 <= r < d, where the leading digit of d is
\* at least DigitBase / 2: [q, r] with r * DigitBase = q * d + r'.  The
\* quotient of the two leading digits of r * DigitBase by the leading digit
\* of d is a guess that is never below q
BigDivDigit(r, d) ==
    LET x == BigTrim(<<0>> \o r)
        top == Digit(x, Len(d) + 1) * DigitBase + Digit(x, Len(d))
        guess == top \div d[Len(d)]
        q == BigDivGuess(x, d, IF guess < DigitBase THEN guess
                               ELSE DigitBase - 1)
    IN [q |-> q, r |-> BigSub(x, BigTrim(BigMulD(d, q, 0)))]
\* floor(r * 2^(15 * k) / d) as k digits, least significant first, and the
\* remainder
RECURSIVE BigQuotientDigits(_, _, _)
BigQuotientDigits(r, d, k) ==
    IF k = 0 THEN [q |-> <<>>, r |-> r]
    ELSE LET step == BigDivDigit(r, d)
             rest == BigQuotientDigits(step.r, d, k - 1)
         IN [q |-> rest.q \o <<step.q>>, r |-> rest.r]
\* a / b for doubles, b # 0: the double nearest to the quotient, from 60
\* binary places of the quotient of the significands and the fact that
\* more follow.  Both significands are scaled by 2^7, which fills the
\* leading digit of the divisor
FDiv(a, b) ==
    IF a.m = <<>> THEN FZero
    ELSE LET x == BigShl(a.m, 7)
             d == BigShl(b.m, 7)
             ge == BigCmp(x, d) >= 0
             dv == BigQuotientDigits(IF ge THEN BigSub(x, d) ELSE x, d, 4)
             whole == BigTrim(dv.q \o (IF ge THEN <<1>> ELSE <<>>))
             sticky == IF dv.r = <<>> THEN <<>> ELSE <<1>>
         IN FRound(a.sg * b.sg, BigAdd(BigShl(whole, 1), sticky),
                   a.e - b.e - 61)
\* abs(a)
FAbs(a) == [a EXCEPT !.sg = 1]
\* round(a): the integer nearest to a, halves to the even one
FRoundInt(a) == a.sg * IntOfBig(RoundShift(a.m, a.e))

(***************************************************************************)
(* modulo_sgs.should_use_dual_axis                                         *)
(***************************************************************************)
\* Series values, in tenths: missing, 0, 1.0, -1.2, 6.0
SeriesCells == {NaN, Num(0), Num(10), Num(0 - 12), Num(60)}

\* the double a cell holds: Val(c) tenths
CellFloat(c) == FDivInt(FromInt(Val(c)), 10)

\* df[col].dropna().abs(): the absolute values of the cells that hold a
\* value, in row order
RECURSIVE AbsValues(_)
AbsValues(cells) ==
    IF cells = <<>> THEN <<>>
    ELSE (IF isna(Head(cells)) THEN <<>> ELSE <<FAbs(CellFloat(Head(cells)))>>)
         \o AbsValues(Tail(cells))

\* the eight running sums of the blocks of eight values that start at
\* index b and end at or before index stop
RECURSIVE LaneSums(_, _, _, _)
LaneSums(vals, r, b, stop) ==
    IF b + 7 > stop THEN r
    ELSE LaneSums(vals,
                  <<FAdd(r[1], vals[b]), FAdd(r[2], vals[b + 1]),
                    FAdd(r[3], vals[b + 2]), FAdd(r[4], vals[b + 3]),
                    FAdd(r[5], vals[b + 4]), FAdd(r[6], vals[b + 5]),
                    FAdd(r[7], vals[b + 6]), FAdd(r[8], vals[b + 7])>>,
                  b + 8, stop)
\* ((r0 + r1) + (r2 + r3)) + ((r4 + r5) + (r6 + r7))
LanesTotal(r) ==
    FAdd(FAdd(FAdd(r[1], r[2]), FAdd(r[3], r[4])),
         FAdd(FAdd(r[5], r[6]), FAdd(r[7], r[8])))
\* the sum behind Series.mean(), numpy's add.reduce over a contiguous
\* column: fewer than 8 values are added one after the other; up to 128
\* values are added in eight lanes, the lanes are added in pairs and the
\* up to seven values left over are added to the result; a longer column
\* is cut in two near the middle, at a multiple of 8
RECURSIVE PairwiseSum(_)
PairwiseSum(vals) ==
    IF Len(vals) < 8 THEN FloatSum(vals, FZero)
    ELSE IF Len(vals) <= 128
    THEN FloatSum(SubSeq(vals, Len(vals) - (Len(vals) % 8) + 1, Len(vals)),
                  LanesTotal(LaneSums(vals, SubSeq(vals, 1, 8), 9,
                                      Len(vals) - (Len(vals) % 8))))
    ELSE FAdd(PairwiseSum(SubSeq(vals, 1,
                  (Len(vals) \div 2) - ((Len(vals) \div 2) % 8))),
              PairwiseSum(SubSeq(vals,
                  (Len(vals) \div 2) - ((Len(vals) \div 2) % 8) + 1,
                  Len(vals))))

\* the sum divided by the count, on doubles; NaN for no value at all
MeanOfValues(vals) ==
    IF vals = <<>> THEN NaN
    ELSE Num(FDivInt(PairwiseSum(vals), Len(vals)))
\* df[col].dropna().abs().mean()
AbsMean(cells) == MeanOfValues(AbsValues(cells))

\* m > 0 (False for NaN)
MeanPositive(m) == notna(m) /\ Val(m).m # <<>>
\* a < b for two means
MeanLess(a, b) == FLess(a, b)

\* the dict `means`, as the list of its items in insertion order
RECURSIVE MeansOf(_, _)
MeansOf(table, cols) ==
    IF cols = <<>> THEN <<>>
    ELSE LET col == Head(cols)
             m == AbsMean(table[col])
         IN (IF MeanPositive(m) THEN <<[col |-> col, m |-> Val(m)]>>
             ELSE <<>>)
            \o MeansOf(table, Tail(cols))

\* sorted(means.items(), key=lambda x: x[1]): stable, ascending
RECURSIVE InsertByMean(_, _)
InsertByMean(s, x) ==
    IF s = <<>> THEN <<x>>
    ELSE IF MeanLess(x.m, Head(s).m) THEN <<x>> \o s
         ELSE <<Head(s)>> \o InsertByMean(Tail(s), x)

RECURSIVE SortByMean(_)
SortByMean(items) ==
    IF items = <<>> THEN <<>>
    ELSE InsertByMean(SortByMean(SubSeq(items, 1, Len(items) - 1)),
                      items[Len(items)])

RangeFactor == 5
Float5 == FromInt(RangeFactor)
\* max_mean / min_mean <= 5, the quotient being a double
RangeWithin(min_mean, max_mean) ==
    ~FLess(Float5, FDiv(max_mean, min_mean))

\* The logarithms.  np.log10 is not computed here: how it rounds differs
\* between the libraries numpy is built on.  Its result is taken to be
\* within 2 units in the last place of the logarithm, for means between
\* 1e-16 and 1e16; a gap, the rounded difference of two such values, is
\* then within 2^-46 of the exact log10(hi / lo).  The comparisons of lines
\* 232 and 237 are decided on the exact ratios hi / lo where these differ
\* by more than a factor 1 + 2^-44, which is more than those errors can
\* bridge; where they do not, the outcome is the one log10_ties names.

\* hi / lo for two positive doubles, as the exact fraction num / den
Ratio(hi, lo) ==
    IF hi.e >= lo.e THEN [num |-> BigShl(hi.m, hi.e - lo.e), den |-> lo.m]
    ELSE [num |-> hi.m, den |-> BigShl(lo.m, lo.e - hi.e)]
\* -1, 0 or 1 as x is below, equal to or above y
RatioCmp(x, y) == BigCmp(BigMul(x.num, y.den), BigMul(y.num, x.den))
\* x and y differ by at most the factor 1 + 2^-k
CloseWithin(x, y, k) ==
    LET a == BigMul(x.num, y.den)
        b == BigMul(y.num, x.den)
    IN IF BigCmp(a, b) >= 0 THEN BigCmp(BigShl(BigSub(a, b), k), b) <= 0
       ELSE BigCmp(BigShl(BigSub(b, a), k), a) <= 0
\* too close for the exact ratios to decide a comparison of the gaps
CloseRatios(x, y) == CloseWithin(x, y, 44)

\* the gap 0 that best_gap starts from (line 228), as the ratio 1
NoGap == [num |-> <<1>>, den |-> <<1>>]
\* gap > best_gap (line 232) at index i of the loop.  Two equal means give
\* the gap 0.0, which is above no best_gap (best_gap is never negative).
\* Otherwise the exact ratios decide, and log10_ties does when they are
\* too close, equal ratios of other means included: it holds the indices
\* at which the gap is found above.
GapGreater(i, gap, best_gap) ==
    IF gap.num = gap.den THEN FALSE
    ELSE IF CloseRatios(gap, best_gap) THEN i \in log10_ties
    ELSE RatioCmp(gap, best_gap) > 0

\* 10 ** 0.7 = 5.011872336272722850015..., rounded to 90 binary places;
\* the double 0.7 of line 237 is below 0.7 by less than 2^-54
TenPow07 ==
    [num |-> <<31703, 25566, 7129, 151, 1072, 389, 5>>,
     den |-> <<0, 0, 0, 0, 0, 0, 1>>]
\* variant of GapTooSmall: the gap threshold is not applied
GapTooSmall_never(best_gap) == FALSE
\* best_gap < 0.7 (line 237): the ratio of the two means is below
\* 10 ** 0.7; when it is too close to it, the comparison is True when
\* log10_ties holds 0
GapTooSmall(best_gap) ==
    IF CloseRatios(best_gap, TenPow07) THEN 0 \in log10_ties
    ELSE RatioCmp(best_gap, TenPow07) < 0

\* for i in range(1, len(log_means)): keep the first strictly largest gap.
\* i and best_split are the code's 0-based indices.
RECURSIVE GapLoop(_, _, _, _)
GapLoop(sorted_cols, i, best_gap, best_split) ==
    IF i >= Len(sorted_cols)
    THEN [best_gap |-> best_gap, best_split |-> best_split]
    ELSE LET gap == Ratio(sorted_cols[i + 1].m, sorted_cols[i].m)
         IN IF GapGreater(i, gap, best_gap)
            THEN GapLoop(sorted_cols, i + 1, gap, i)
            ELSE GapLoop(sorted_cols, i + 1, best_gap, best_split)

ColsOf(items) == [i \in 1..Len(items) |-> items[i].col]

\* variants of HighIsPrimary: `>` for `>=`; no majority rule
HighIsPrimary_strict(group_high, group_low) == Len(group_high) > Len(group_low)
HighIsPrimary_always(group_high, group_low) == TRUE
\* len(group_high) >= len(group_low)
HighIsPrimary(group_high, group_low) == Len(group_high) >= Len(group_low)

NoSplit(cols) == [use_dual |-> FALSE, primary |-> cols, secondary |-> <<>>]

\* lines 240-247: the two groups, the larger one first
SplitGroups(group_low, group_high) ==
    IF HighIsPrimary(group_high, group_low)
    THEN [use_dual |-> TRUE, primary |-> group_high, secondary |-> group_low]
    ELSE [use_dual |-> TRUE, primary |-> group_low, secondary |-> group_high]
\* lines 237-247, best being the result of the loop
SplitAtGap(cols, sorted_cols, best) ==
    IF GapTooSmall(best.best_gap) THEN NoSplit(cols)
    ELSE SplitGroups(ColsOf(SubSeq(sorted_cols, 1, best.best_split)),
                     ColsOf(SubSeq(sorted_cols, best.best_split + 1,
                                   Len(sorted_cols))))
\* lines 218-247: min_mean and max_mean are the first and the last of
\* sorted_cols
SplitSorted(cols, sorted_cols) ==
    IF RangeWithin(sorted_cols[1].m, sorted_cols[Len(sorted_cols)].m)
    THEN NoSplit(cols)
    ELSE SplitAtGap(cols, sorted_cols, GapLoop(sorted_cols, 1, NoGap, 1))
\* lines 213-247
SplitOnMeans(cols, means) ==
    IF Len(means) < 2 THEN NoSplit(cols)
    ELSE SplitSorted(cols, SortByMean(means))
should_use_dual_axis(table, cols) ==
    IF Len(cols) < 2 THEN NoSplit(cols)
    ELSE SplitOnMeans(cols, MeansOf(table, cols))

\* The charted table: n columns named 1..n, all with the same number of
\* observations, here one; the requested list names its columns in order.
AxisTables(n) == [1..n -> {<<c>> : c \in SeriesCells}]
OneRow(means) == [c \in 1..Len(means) |-> <<Num(means[c])>>]
\* the tables of the examples in the docstring's terms: means 1, 1.2, 50
\* and means 1, 2, 3
ExampleTables == {OneRow(<<10, 12, 500>>), OneRow(<<10, 20, 30>>)}
\* Tables on which the rounding of the doubles shows.  One observation per
\* column: 3.0, 18.0 and 108.0 have two neighbour gaps of exactly the same
\* size, log10(6); 9572734.3 / 1910011.6 is 10 ** 0.7 to 16 digits.  Three
\* observations: 0.1, 0.2, 0.3 have the mean 0.20000000000000004, next to
\* the mean 0.2 of the second column.
RoundingColumns ==
    {<<Num(30)>>, <<Num(180)>>, <<Num(1080)>>, <<Num(19100116)>>,
     <<Num(95727343)>>,
     <<Num(1), Num(2), Num(3)>>, <<Num(2), NaN, NaN>>, <<Num(60), NaN, NaN>>}
RoundingTables(n) ==
    {t \in [1..n -> RoundingColumns] :
        \A a, b \in 1..n : Len(t[a]) = Len(t[b])}
\* Long tables, of MaxObs rows, on which the order of the additions shows:
\* a column holds the value c in its first k rows and nothing below.
\* Seventeen and ten values of 0.1 have the mean 0.1, the mean of a single
\* 0.1, when they are added in lanes; added one after the other they have
\* the means 0.10000000000000002 and 0.09999999999999999.
Filled(c, k) == [i \in 1..MaxObs |-> IF i <= k THEN c ELSE NaN]
LongColumns ==
    {Filled(Num(1), MaxObs), Filled(Num(1), MaxObs - 7), Filled(Num(1), 1),
     Filled(Num(60), MaxObs)}
LongTables(n) == [1..n -> LongColumns]
\* the ratios of the neighbours of the sorted means, from index i on
RECURSIVE GapsOf(_, _)
GapsOf(sorted_cols, i) ==
    IF i >= Len(sorted_cols) THEN <<>>
    ELSE <<Ratio(sorted_cols[i + 1].m, sorted_cols[i].m)>>
         \o GapsOf(sorted_cols, i + 1)
\* the comparisons the exact ratios do not decide: the loop indices at
\* which the gap is close to an earlier gap or to no gap at all, and 0 when
\* a gap is close to the threshold
CloseAmong(gaps) ==
    {i \in 1..Len(gaps) :
        /\ gaps[i].num # gaps[i].den
        /\ \/ CloseRatios(gaps[i], NoGap)
           \/ \E j \in 1..(i - 1) : CloseRatios(gaps[j], gaps[i])}
    \cup {z \in {0} : \E i \in 1..Len(gaps) : CloseRatios(gaps[i], TenPow07)}
CloseCalls(table, cols) ==
    CloseAmong(GapsOf(SortByMean(MeansOf(table, cols)), 1))

IdleAxis ==
    /\ df = <<>>
    /\ columns = <<>>
    /\ axis = None
    /\ df_plot = None
    /\ log10_ties = {}
IdleRanking ==
    /\ df_cadastro = <<>>
    /\ df_resumo = <<>>
    /\ df_ativo = <<>>
    /\ records = <<>>
    /\ loaded = None
IdleLatest ==
    /\ df_rates = [cols |-> {}, rows |-> <<>>]
    /\ mod = ""
    /\ date_col = "Mes"
    /\ df_latest = None
    /\ results = None
IdleView ==
    /\ df_ranking = None
    /\ rank_var = ""
    /\ df_top = None
    /\ df_bottom = None
    /\ label_left = ""
    /\ label_right = ""
    /\ df_mod = None
    /\ df_sorted_desc = None
    /\ df_sorted_asc = None
    /\ selected_bank = ""
    /\ pos_str = None
IdleSgs ==
    /\ sgs_df = None
    /\ resample_value = "original"
    /\ sgs_data = None
    /\ again = None
IdleEarly ==
    /\ IdleAxis
    /\ IdleRanking
    /\ IdleLatest
    /\ IdleView
    /\ IdleSgs
IdleMap ==
    /\ state_data = None
    /\ factors = None
    /\ fill_colors = None
IdleFetch ==
    /\ fetch_outcome = <<>>
    /\ handler = <<"", "">>
    /\ attempted = {}
    /\ fetch_values = <<>>
IdleSession ==
    /\ current_page = ""
    /\ session_state = None
    /\ fetch_count = 0
    /\ shown = None
    /\ event = None
IdleSeries ==
    /\ sgs_series_list = None
    /\ list_op = None
IdleSpi ==
    /\ spi_queried = ""
    /\ spi_dates = None
    /\ spi_view = ""
    /\ spi_event = ""
    /\ spi_fetches = 0
IdleQuarter ==
    /\ today = None
    /\ quarter_answers = <<>>
    /\ candidates = None
    /\ tried = 0
    /\ latest_quarter = 0
IdleDownload ==
    /\ dl_start = 0
    /\ dl_end = 0
    /\ dl_cursor = None
    /\ periods = None
IdleLate ==
    /\ IdleMap
    /\ IdleFetch
    /\ IdleSession
    /\ IdleSeries
    /\ IdleSpi
    /\ IdleQuarter
    /\ IdleDownload
IdleRestOfMap ==
    /\ IdleEarly
    /\ IdleFetch
    /\ IdleSession
    /\ IdleSeries
    /\ IdleSpi
    /\ IdleQuarter
    /\ IdleDownload
IdleRestOfFetch ==
    /\ IdleEarly
    /\ IdleMap
    /\ IdleSession
    /\ IdleSeries
    /\ IdleSpi
    /\ IdleQuarter
    /\ IdleDownload
IdleRestOfSession ==
    /\ IdleEarly
    /\ IdleMap
    /\ IdleFetch
    /\ IdleSeries
    /\ IdleSpi
    /\ IdleQuarter
    /\ IdleDownload
IdleRestOfSeries ==
    /\ IdleEarly
    /\ IdleMap
    /\ IdleFetch
    /\ IdleSession
    /\ IdleSpi
    /\ IdleQuarter
    /\ IdleDownload
IdleRestOfSpi ==
    /\ IdleEarly
    /\ IdleMap
    /\ IdleFetch
    /\ IdleSession
    /\ IdleSeries
    /\ IdleQuarter
    /\ IdleDownload
IdleRestOfQuarter ==
    /\ IdleEarly
    /\ IdleMap
    /\ IdleFetch
    /\ IdleSession
    /\ IdleSeries
    /\ IdleSpi
    /\ IdleDownload
IdleRestOfDownload ==
    /\ IdleEarly
    /\ IdleMap
    /\ IdleFetch
    /\ IdleSession
    /\ IdleSeries
    /\ IdleSpi
    /\ IdleQuarter

InitAxis ==
    /\ pc = "input"
    /\ \E n \in 0..MaxCols :
           df \in AxisTables(n) \cup RoundingTables(n) \cup LongTables(n)
                  \cup {t \in ExampleTables : Len(t) = n}
    /\ columns = [i \in 1..Len(df) |-> i]
    /\ log10_ties \in SUBSET CloseCalls(df, columns)
    /\ axis = None
    /\ df_plot = None
    /\ IdleRanking
    /\ IdleLatest
    /\ IdleView
    /\ IdleSgs
    /\ IdleLate

CallShouldUseDualAxis ==
    /\ pc = "input"
    /\ axis = None
    /\ axis' = should_use_dual_axis(df, columns)
    /\ pc' = "done"
    /\ UNCHANGED <<df, columns, df_plot, log10_ties, rankingVars, latestVars, viewVars,
                   sgsVars, lateVars>>

NextAxis == CallShouldUseDualAxis
SpecAxis == InitAxis /\ [][NextAxis]_vars
(***************************************************************************)
(* Properties of should_use_dual_axis                                      *)
(***************************************************************************)
AxisDone == pc = "done" /\ axis # None
\* the mean absolute value of every column of the table, in column order
RECURSIVE MeanRow(_, _)
MeanRow(table, c) ==
    IF c > Len(table) THEN <<>>
    ELSE <<AbsMean(table[c])>> \o MeanRow(table, c + 1)
ColMeans == MeanRow(df, 1)
\* the requested variables with a non-zero, non-missing mean absolute
\* value, m being the means of the columns
Qualifying(m) == {c \in Elems(columns) : MeanPositive(m[c])}
\* every variable of group g has a smaller mean than every variable of h
GroupBelow(m, g, h) ==
    \A a \in Elems(g), b \in Elems(h) : MeanLess(Val(m[a]), Val(m[b]))
SplitWithTie ==
    AxisDone /\ axis.use_dual /\ Len(axis.primary) = Len(axis.secondary)

\* C1 (as stated): on a split with two groups of the same size, the
\* high-magnitude group is the secondary group and the low-magnitude group
\* the primary group.
C1_TieHighIsSecondary ==
    SplitWithTie => GroupBelow(ColMeans, axis.primary, axis.secondary)

\* C1 (amended): on a split with two groups of the same size, the
\* high-magnitude group is the primary group and the low-magnitude group the
\* secondary group.
C1_TieHighIsPrimary ==
    SplitWithTie =>
        /\ GroupBelow(ColMeans, axis.secondary, axis.primary)
        /\ axis.primary # <<>>

C1_Witness == SplitWithTie /\ Len(axis.primary) >= 1

\* C2: primary and secondary are disjoint, together they hold exactly the
\* requested variables (zero-mean and all-missing ones included), and
\* without a split secondary is empty and primary is the requested list.
C2_GroupsPartitionColumns ==
    AxisDone =>
        /\ Elems(axis.primary) \cup Elems(axis.secondary) = Elems(columns)
        /\ Elems(axis.primary) \cap Elems(axis.secondary) = {}
        /\ (~axis.use_dual =>
                axis.secondary = <<>> /\ axis.primary = columns)

\* the ratios of the means of two qualifying variables that are neighbours
\* in ascending order of mean: 10 ** gap for the gaps between consecutive
\* log10 means
NeighbourRatios(m) ==
    LET q == Qualifying(m)
    IN {Ratio(Val(m[p[2]]), Val(m[p[1]])) :
           p \in {p \in q \X q :
                     /\ MeanLess(Val(m[p[1]]), Val(m[p[2]]))
                     /\ ~\E c \in q :
                            /\ MeanLess(Val(m[p[1]]), Val(m[c]))
                            /\ MeanLess(Val(m[c]), Val(m[p[2]]))}}
\* the largest gap is at least 0.7 whatever the rounding of the
\* logarithms: a neighbour ratio above 10 ** 0.7 by more than a factor
\* 1 + 2^-40
GapSurelyAtLeastThreshold(m) ==
    \E g \in NeighbourRatios(m) :
        RatioCmp(g, TenPow07) > 0 /\ ~CloseWithin(g, TenPow07, 40)
\* the largest gap can be at least 0.7: a neighbour ratio above
\* 10 ** 0.7 or below it by less than a factor 1 + 2^-40
GapPossiblyAtLeastThreshold(m) ==
    \E g \in NeighbourRatios(m) :
        RatioCmp(g, TenPow07) > 0 \/ CloseWithin(g, TenPow07, 40)
\* max mean / min mean > 5, the quotient being a double
RangeAboveFive(m) ==
    \E a, b \in Qualifying(m) :
        /\ \A c \in Qualifying(m) :
               /\ ~MeanLess(Val(m[c]), Val(m[a]))
               /\ ~MeanLess(Val(m[b]), Val(m[c]))
        /\ FLess(Float5, FDiv(Val(m[b]), Val(m[a])))

\* C3: a split is reported iff at least 2 requested variables qualify, the
\* largest qualifying mean is more than 5 times the smallest, and the
\* largest gap between consecutive log10 means is at least 0.7, the gap
\* being the one computed on doubles: a gap that is at least 0.7 whatever
\* the rounding gives a split, and a split has a gap that can be at least
\* 0.7; otherwise all requested variables form the single primary group.
C3_SplitIffThreeConditions ==
    AxisDone =>
        LET m == ColMeans
            wide == Cardinality(Qualifying(m)) >= 2 /\ RangeAboveFive(m)
        IN /\ (wide /\ GapSurelyAtLeastThreshold(m)) => axis.use_dual
           /\ axis.use_dual => (wide /\ GapPossiblyAtLeastThreshold(m))
           /\ ~axis.use_dual =>
                  axis.primary = columns /\ axis.secondary = <<>>

\* the range exceeds 5x and yet no gap reaches the threshold: no split
C3_Witness ==
    /\ AxisDone
    /\ ~axis.use_dual
    /\ Cardinality(Qualifying(ColMeans)) >= 2
    /\ RangeAboveFive(ColMeans)
    /\ ~GapPossiblyAtLeastThreshold(ColMeans)

\* C4: on a split with groups of different sizes the larger group is the
\* primary one, whether it is the low or the high group; means
\* [1, 1.2, 50] give primary {1, 1.2} and secondary {50}; means [1, 2, 3]
\* give no split.
C4_LargerGroupIsPrimary ==
    AxisDone =>
        /\ (axis.use_dual /\ Len(axis.primary) # Len(axis.secondary))
             => /\ Len(axis.primary) > Len(axis.secondary)
                /\ \/ GroupBelow(ColMeans, axis.primary, axis.secondary)
                   \/ GroupBelow(ColMeans, axis.secondary, axis.primary)
        /\ df = OneRow(<<10, 12, 500>>)
             => axis = [use_dual |-> TRUE, primary |-> <<1, 2>>,
                        secondary |-> <<3>>]
        /\ df = OneRow(<<10, 20, 30>>) => axis = NoSplit(<<1, 2, 3>>)

\* two low series and one high series: the low group is primary
C4_Witness ==
    /\ AxisDone
    /\ df = OneRow(<<10, 12, 500>>)
    /\ axis.use_dual
    /\ Len(axis.primary) = 2
    /\ Len(axis.secondary) = 1
    /\ GroupBelow(ColMeans, axis.primary, axis.secondary)
(***************************************************************************)
(* modulo_taxas.get_latest_data                                            *)
(***************************************************************************)
\* A table is [cols, rows]: its column names and its rows in order, each
\* row a function from the column names to cells.  Dates are day numbers;
\* NaN is NaT (pd.to_datetime(..., errors="coerce")).
DateCols == {"Mes", "InicioPeriodo"}
DateCells == {NaN, Num(1), Num(2)}
Banks == {"BANCO A", "BANCO B"}
RateRows(dcol) ==
    {(dcol :> d) @@ ("InstituicaoFinanceira" :> b) : d \in DateCells, b \in Banks}

\* variant of date_max: the smallest date
RECURSIVE date_min(_, _)
date_min(rows, col) ==
    IF rows = <<>> THEN NaN
    ELSE LET rest == date_min(Tail(rows), col)
             d == Head(rows)[col]
         IN IF isna(d) THEN rest
            ELSE IF isna(rest) \/ Val(d) < Val(rest) THEN d ELSE rest

\* df[date_col].max(): the largest date, NaT skipped; NaT if there is none
RECURSIVE date_max(_, _)
date_max(rows, col) ==
    IF rows = <<>> THEN NaN
    ELSE LET rest == date_max(Tail(rows), col)
             d == Head(rows)[col]
         IN IF isna(d) THEN rest
            ELSE IF isna(rest) \/ Val(d) > Val(rest) THEN d ELSE rest

\* df[df[date_col] == max_date]: NaT equals nothing, not even NaT
RECURSIVE RowsAtDate(_, _, _)
RowsAtDate(rows, col, max_date) ==
    IF rows = <<>> THEN <<>>
    ELSE (IF notna(Head(rows)[col]) /\ Head(rows)[col] = max_date
          THEN <<Head(rows)>> ELSE <<>>)
         \o RowsAtDate(Tail(rows), col, max_date)

KeyError == [kind |-> "KeyError"]
Frame(t) == [kind |-> "DataFrame", cols |-> t.cols, rows |-> t.rows]

get_latest_data(t, col) ==
    IF t.rows = <<>> THEN Frame(t)
    ELSE IF col \notin t.cols THEN KeyError
    ELSE Frame([cols |-> t.cols,
                rows |-> RowsAtDate(t.rows, col, date_max(t.rows, col))])

\* One modality of each endpoint stands for the lists of the source.
DAILY_MODALITIES == {"Cheque especial - Prefixado"}
MONTHLY_MODALITIES ==
    {"Financiamento imobiliario com taxas de mercado - Prefixado"}
ALL_MODALITIES == DAILY_MODALITIES \cup MONTHLY_MODALITIES
is_daily(modality) == modality \in DAILY_MODALITIES
get_date_col(modality) == IF is_daily(modality) THEN "InicioPeriodo" ELSE "Mes"

\* _load_all_latest(<<m>>) when the fetch returned table t: the dictionary
\* `results`, a function from the modalities that got a snapshot.  The body
\* of the loop runs inside try/except Exception: pass, so an exception of
\* get_latest_data leaves the dictionary without the modality.
NoResults == [m \in {} |-> None]
load_all_latest(m, t) ==
    LET latest == get_latest_data(t, get_date_col(m)) IN
    IF t.rows = <<>> THEN NoResults
    ELSE IF latest = KeyError THEN NoResults
    ELSE IF latest.rows = <<>> THEN NoResults
    ELSE [k \in {m} |-> latest]

InitLatest ==
    /\ pc = "input"
    /\ \E dcol \in DateCols, n \in 0..MaxRateRows :
          \E rows \in [1..n -> RateRows(dcol)] :
              df_rates = [cols |-> {dcol, "InstituicaoFinanceira"},
                          rows |-> rows]
    /\ mod \in ALL_MODALITIES
    /\ date_col = get_date_col(mod)
    /\ df_latest = None
    /\ results = None
    /\ IdleAxis
    /\ IdleRanking
    /\ IdleView
    /\ IdleSgs
    /\ IdleLate

CallGetLatestData ==
    /\ pc = "input"
    /\ df_latest = None
    /\ df_latest' = get_latest_data(df_rates, date_col)
    /\ pc' = "done"
    /\ UNCHANGED <<df_rates, mod, date_col, results, axisVars, rankingVars,
                   viewVars, sgsVars, lateVars>>

LoadAllLatest ==
    /\ pc = "input"
    /\ results = None
    /\ results' = load_all_latest(mod, df_rates)
    /\ pc' = "done"
    /\ UNCHANGED <<df_rates, mod, date_col, df_latest, axisVars, rankingVars,
                   viewVars, sgsVars, lateVars>>

NextLatest == CallGetLatestData \/ LoadAllLatest
SpecLatest == InitLatest /\ [][NextLatest]_vars

(***************************************************************************)
(* Properties of get_latest_data                                           *)
(***************************************************************************)
LatestDone == pc = "done" /\ df_latest # None /\ date_col \in df_rates.cols
RateDate(i) == df_rates.rows[i][date_col]
\* the input rows that carry the maximum date present
AtMaxDate ==
    {i \in 1..Len(df_rates.rows) :
        /\ RateDate(i) # NaN
        /\ \A j \in 1..Len(df_rates.rows) :
               RateDate(j) # NaN => RateDate(j)[1] <= RateDate(i)[1]}
\* the k-th of them in input order
NthAtMaxDate(k) ==
    CHOOSE i \in AtMaxDate : Cardinality({j \in AtMaxDate : j < i}) = k - 1

\* C10: get_latest_data returns exactly the input rows whose date equals
\* the maximum date present, every one of them (also several sharing it),
\* in input order, none with an earlier date; an empty table is returned
\* unchanged.
C10_LatestRowsExactly ==
    /\ LatestDone =>
          /\ df_latest.kind = "DataFrame"
          /\ df_latest.cols = df_rates.cols
          /\ Len(df_latest.rows) = Cardinality(AtMaxDate)
          /\ \A k \in 1..Len(df_latest.rows) :
                 df_latest.rows[k] = df_rates.rows[NthAtMaxDate(k)]
    /\ (pc = "done" /\ df_latest # None /\ df_rates.rows = <<>>) =>
          df_latest = Frame(df_rates)

\* several rows share the maximum date and an earlier row is dropped
C10_Witness ==
    /\ LatestDone
    /\ Cardinality(AtMaxDate) >= 2
    /\ Len(df_rates.rows) > Cardinality(AtMaxDate)
    /\ Len(df_latest.rows) = 2

\* the fetched table has rows and lacks the modality's date column
MissingDateCol == df_rates.rows # <<>> /\ get_date_col(mod) \notin df_rates.cols

\* get_latest_data itself fails on such a table
MissingColRaises ==
    (pc = "done" /\ df_latest # None /\ MissingDateCol) => df_latest = KeyError

\* C11: when the snapshot filter is asked for a date column that the
\* non-empty table lacks, the failure reaches the caller of the loader: it
\* is not swallowed and not turned into "no data" for the modality.
C11_MissingColumnNotSwallowed ==
    (pc = "done" /\ results # None /\ MissingDateCol) => results = KeyError

(***************************************************************************)
(* modulo_ifdata: filter_institutions, build_ranking_data                  *)
(***************************************************************************)
RESUMO_VARS ==
    {"Ativo Total", "Captacoes", "Patrimonio Liquido", "Lucro Liquido",
     "Indice de Basileia"}
ATIVO_COL_OP_CREDITO == "Operacoes de Credito \n(e)"
ATIVO_COL_BRUTO == "Valor Contabil Bruto \n(e1)"
ATIVO_COL_PERDA == "Perda Esperada \n(e2)"
target_cols == {ATIVO_COL_OP_CREDITO, ATIVO_COL_BRUTO, ATIVO_COL_PERDA}
OpCredito == "Operacoes de Credito"
PerdaEsperada == "Perda Esperada de Credito"

\* An institution name is the sequence of its tokens: words, single
\* whitespace characters, dashes.  EnDash stands for the character U+2013.
EnDash == "<U+2013>"
Whitespace == {" "}
Dashes == {"-", EnDash}
NameHyphen == <<"BANCO A", " ", "-", " ", "PRUDENCIAL">>
NameEnDash == <<"BANCO B", " ", EnDash, " ", "PRUDENCIAL">>
NameLower == <<"BANCO C", " ", "-", " ", "prudencial">>
NamePlain == <<"BANCO D">>
InstNames == {NameHyphen, NameEnDash, NameLower, NamePlain}

\* str.upper on a token (case=False of str.contains)
Upper(tok) == IF tok = "prudencial" THEN "PRUDENCIAL" ELSE tok
\* NomeInstituicao.str.contains("PRUDENCIAL", case=False, na=False)
ContainsPrudencial(name) ==
    \E i \in 1..Len(name) : Upper(name[i]) = "PRUDENCIAL"

\* the index after the run of whitespace tokens that starts at i
RECURSIVE SkipSpace(_, _)
SkipSpace(name, i) ==
    IF i <= Len(name) /\ name[i] \in Whitespace
    THEN SkipSpace(name, i + 1) ELSE i

\* the index after a match of \s*[-<U+2013>]\s*PRUDENCIAL starting at i,
\* 0 if there is no match at i
MatchEnd(name, i) ==
    LET j == SkipSpace(name, i) IN
    IF j <= Len(name) /\ name[j] \in Dashes
    THEN LET k == SkipSpace(name, j + 1) IN
         IF k <= Len(name) /\ name[k] = "PRUDENCIAL" THEN k + 1 ELSE 0
    ELSE 0

\* .str.replace(r"\s*[-<U+2013>]\s*PRUDENCIAL", "", regex=True)
RECURSIVE RemoveSuffix(_, _)
RemoveSuffix(name, i) ==
    IF i > Len(name) THEN <<>>
    ELSE IF MatchEnd(name, i) # 0 THEN RemoveSuffix(name, MatchEnd(name, i))
    ELSE <<name[i]>> \o RemoveSuffix(name, i + 1)

\* .str.strip()
RECURSIVE StripName(_)
StripName(name) ==
    IF name = <<>> THEN <<>>
    ELSE IF Head(name) \in Whitespace THEN StripName(Tail(name))
    ELSE IF name[Len(name)] \in Whitespace
         THEN StripName(SubSeq(name, 1, Len(name) - 1))
    ELSE name

\* the display name of lines 222-226; a missing name stays missing
CleanName(cell) ==
    IF isna(cell) THEN NaN ELSE Num(StripName(RemoveSuffix(Val(cell), 1)))

\* drop_duplicates(subset=["CodInst"]): the first row of each code is kept
RECURSIVE drop_duplicates(_, _)
drop_duplicates(rows, seen) ==
    IF rows = <<>> THEN <<>>
    ELSE IF Head(rows).CodInst \in seen
         THEN drop_duplicates(Tail(rows), seen)
         ELSE <<Head(rows)>>
              \o drop_duplicates(Tail(rows), seen \cup {Head(rows).CodInst})

InSegment(e) == e.Sr \in {"S1", "S2", "S3", "S4"}
IsPrudencial(e) == ContainsPrudencial(e.NomeInstituicao)

filter_institutions(cadastro) ==
    drop_duplicates(SelectSeq(SelectSeq(cadastro, InSegment), IsPrudencial), {})

\* str(...).strip() on a variable name
PaddedAtivoTotal == " Ativo Total "
StripVar(v) == IF v = PaddedAtivoTotal THEN "Ativo Total" ELSE v

\* variant of InValidCodes: no registry filter
InValidCodes_any(cod, valid_codes) == TRUE
\* row.get("CodInst") in valid_codes
InValidCodes(cod, valid_codes) == cod \in valid_codes

\* variant of IsResumoVar: no variable filter
IsResumoVar_any(var_name) == TRUE
\* var_name in RESUMO_VARS
IsResumoVar(var_name) == var_name \in RESUMO_VARS
\* var_name in target_cols
IsTargetCol(var_name) == var_name \in target_cols

\* lines 161-164: the Basel ratio comes as a proportion and is shown in %
ResumoValue(var_name, saldo) ==
    IF var_name = "Indice de Basileia" /\ notna(saldo)
    THEN Num(Val(saldo) * 100) ELSE saldo

\* lines 157-169
RECURSIVE ResumoRecords(_, _)
ResumoRecords(rows, valid_codes) ==
    IF rows = <<>> THEN <<>>
    ELSE LET row == Head(rows)
             var_name == StripVar(row.NomeColuna)
         IN (IF InValidCodes(row.CodInst, valid_codes) /\ IsResumoVar(var_name)
             THEN <<[CodInst |-> row.CodInst, Variable |-> var_name,
                     Value |-> ResumoValue(var_name, row.Saldo)]>>
             ELSE <<>>)
            \o ResumoRecords(Tail(rows), valid_codes)

\* lines 175-182: the dict ativo_data as the list of its items in insertion
\* order, [cod, vals]; vals maps the column names seen for cod to saldos
PutAtivo(data, cod, var_name, saldo) ==
    IF \E i \in 1..Len(data) : data[i].cod = cod
    THEN [i \in 1..Len(data) |->
            IF data[i].cod = cod
            THEN [cod |-> cod,
                  vals |-> (var_name :> saldo) @@ data[i].vals]
            ELSE data[i]]
    ELSE Append(data, [cod |-> cod, vals |-> (var_name :> saldo)])

RECURSIVE AtivoData(_, _, _)
AtivoData(rows, valid_codes, data) ==
    IF rows = <<>> THEN data
    ELSE LET row == Head(rows) IN
         AtivoData(Tail(rows), valid_codes,
                   IF InValidCodes(row.CodInst, valid_codes)
                      /\ IsTargetCol(row.NomeColuna)
                   THEN PutAtivo(data, row.CodInst, row.NomeColuna, row.Saldo)
                   ELSE data)

\* vals.get(name): None (missing) when the key is absent
DictGet(vals, name) == IF name \in DOMAIN vals THEN vals[name] ELSE NaN

\* the literal 100 of line 198 as a double
Float100 == FromInt(100)
\* variant of PecValue: without abs()
PecValue_signed(perda, bruto) ==
    FRound2(FMul(FromFrac(perda, bruto), Float100))
\* round(abs(perda) / bruto * 100, 2) on floats, counted in hundredths
PecValue(perda, bruto) ==
    FRound2(FMul(FromFrac(Abs(perda), bruto), Float100))

\* lines 185-203
RECURSIVE AtivoRecords(_)
AtivoRecords(data) ==
    IF data = <<>> THEN <<>>
    ELSE LET cod == Head(data).cod
             vals == Head(data).vals
             op_cred == DictGet(vals, ATIVO_COL_OP_CREDITO)
             bruto == DictGet(vals, ATIVO_COL_BRUTO)
             perda == DictGet(vals, ATIVO_COL_PERDA)
         IN (IF notna(op_cred)
             THEN <<[CodInst |-> cod, Variable |-> OpCredito,
                     Value |-> op_cred]>>
             ELSE <<>>)
            \o (IF notna(bruto) /\ notna(perda) /\ Val(bruto) # 0
                THEN <<[CodInst |-> cod, Variable |-> PerdaEsperada,
                        Value |-> Num(PecValue(Val(perda), Val(bruto)))]>>
                ELSE <<>>)
            \o AtivoRecords(Tail(data))

BuildRecords(resumo, ativo, valid_codes) ==
    ResumoRecords(resumo, valid_codes)
    \o AtivoRecords(AtivoData(ativo, valid_codes, <<>>))

\* aggfunc="first": the first non-missing value of the (code, variable) group
RECURSIVE FirstValue(_, _, _)
FirstValue(recs, cod, var) ==
    IF recs = <<>> THEN NaN
    ELSE IF Head(recs).CodInst = cod /\ Head(recs).Variable = var
            /\ notna(Head(recs).Value)
         THEN Head(recs).Value
         ELSE FirstValue(Tail(recs), cod, var)

\* the elements of a set of integers in ascending order
RECURSIVE Ascending(_)
Ascending(S) ==
    IF S = {} THEN <<>>
    ELSE LET m == CHOOSE x \in S : \A y \in S : x <= y
         IN <<m>> \o Ascending(S \ {m})

\* df.pivot_table(index="CodInst", columns="Variable", values="Value",
\* aggfunc="first").reset_index(): groups without a value are dropped
PivotTable(recs) ==
    LET valued == {i \in 1..Len(recs) : notna(recs[i].Value)}
        cods == Ascending({recs[i].CodInst : i \in valued})
        vars_ == {recs[i].Variable : i \in valued}
    IN [cols |-> vars_,
        rows |-> [k \in 1..Len(cods) |->
                    [CodInst |-> cods[k],
                     values |-> [v \in vars_ |-> FirstValue(recs, cods[k], v)]]]]

\* df_pivot.merge(df_cadastro_filtered[["CodInst", "NomeInstituicao"]],
\* on="CodInst", how="left"), then the name cleaning of lines 222-226
RECURSIVE MergeNames(_, _)
MergeNames(rows, filtered) ==
    IF rows = <<>> THEN <<>>
    ELSE LET row == Head(rows)
             SameCode(e) == e.CodInst = row.CodInst
             hits == SelectSeq(filtered, SameCode)
         IN (IF hits = <<>>
             THEN <<[CodInst |-> row.CodInst, NomeInstituicao |-> NaN,
                     values |-> row.values]>>
             ELSE [h \in 1..Len(hits) |->
                     [CodInst |-> row.CodInst,
                      NomeInstituicao |->
                          CleanName(Num(hits[h].NomeInstituicao)),
                      values |-> row.values]])
            \o MergeNames(Tail(rows), filtered)

EmptyFrame == [kind |-> "DataFrame", cols |-> {}, rows |-> <<>>]

ValidCodes(filtered) == {filtered[i].CodInst : i \in 1..Len(filtered)}

build_ranking_data(resumo, ativo, filtered) ==
    LET recs == BuildRecords(resumo, ativo, ValidCodes(filtered)) IN
    IF recs = <<>> THEN EmptyFrame
    ELSE LET df_pivot == PivotTable(recs)
         IN [kind |-> "DataFrame", cols |-> df_pivot.cols,
             rows |-> MergeNames(df_pivot.rows, filtered)]

\* The input tables.  Amounts are counted in hundredths.
InstCodes == {1, 2}
CadastroRows ==
    [CodInst : InstCodes, NomeInstituicao : InstNames, Sr : {"S1", "S5"}]
ResumoRows ==
    [CodInst : InstCodes,
     NomeColuna : {"Ativo Total", PaddedAtivoTotal, "Indice de Basileia",
                   ATIVO_COL_BRUTO},
     Saldo : {NaN, Num(3), Num(8)}]
AtivoRows ==
    [CodInst : InstCodes,
     NomeColuna : target_cols \cup {"Ativo Total"},
     Saldo : {NaN, Num(0), Num(0 - 23), Num(160)}]

Inst(cod, name, sr) == [CodInst |-> cod, NomeInstituicao |-> name, Sr |-> sr]
ValueRow(cod, var_name, saldo) ==
    [CodInst |-> cod, NomeColuna |-> var_name, Saldo |-> Num(saldo)]

\* registries under which the value tables are varied: both institutions
\* qualify, or the second one is outside segments S1-S4
FixedCadastros ==
    {<<Inst(1, NameHyphen, "S1"), Inst(2, NameEnDash, "S3")>>,
     <<Inst(1, NameHyphen, "S1"), Inst(2, NameEnDash, "S5")>>}
\* value tables under which the registry is varied
FixedResumos ==
    {<<>>,
     <<ValueRow(1, "Ativo Total", 8), ValueRow(2, "Indice de Basileia", 3)>>}
FixedAtivos ==
    {<<>>,
     <<ValueRow(2, ATIVO_COL_OP_CREDITO, 160)>>}

InitRanking ==
    /\ pc = "input"
    /\ \/ /\ \E n \in 0..MaxInst : df_cadastro \in [1..n -> CadastroRows]
          /\ df_resumo \in FixedResumos
          /\ df_ativo \in FixedAtivos
       \/ /\ df_cadastro \in FixedCadastros
          /\ \E n \in 0..MaxValueRows, m \in 0..MaxValueRows :
                /\ n + m <= MaxValueRows
                /\ df_resumo \in [1..n -> ResumoRows]
                /\ df_ativo \in [1..m -> AtivoRows]
    /\ records = <<>>
    /\ loaded = None
    /\ IdleAxis
    /\ IdleLatest
    /\ IdleView
    /\ IdleSgs
    /\ IdleLate

\* _load_latest_data, lines 765-778, on the three fetched tables: nothing
\* is built when no institution passes the filter
LoadLatestData ==
    /\ pc = "input"
    /\ loaded = None
    /\ LET df_filtered == filter_institutions(df_cadastro) IN
       IF df_filtered = <<>>
       THEN UNCHANGED <<records, loaded>>
       ELSE /\ records' = BuildRecords(df_resumo, df_ativo,
                                       ValidCodes(df_filtered))
            /\ loaded' = build_ranking_data(df_resumo, df_ativo, df_filtered)
    /\ pc' = "done"
    /\ UNCHANGED <<df_cadastro, df_resumo, df_ativo, axisVars, latestVars,
                   viewVars, sgsVars, lateVars>>

NextRanking == LoadLatestData
SpecRanking == InitRanking /\ [][NextRanking]_vars
(***************************************************************************)
(* Properties of build_ranking_data                                        *)
(***************************************************************************)
RankingDone == pc = "done" /\ loaded # None
ALL_VARIABLES == RESUMO_VARS \cup {OpCredito, PerdaEsperada}

\* the institutions of the filtered registry: segment S1-S4 and a name
\* containing PRUDENCIAL in any case
Qualifies(i) == InSegment(df_cadastro[i]) /\ IsPrudencial(df_cadastro[i])
RegistryCodes ==
    {df_cadastro[i].CodInst : i \in {j \in 1..Len(df_cadastro) : Qualifies(j)}}
\* the registry name of an institution: that of its first qualifying row
RegistryName(cod) ==
    LET rows == {i \in 1..Len(df_cadastro) :
                    Qualifies(i) /\ df_cadastro[i].CodInst = cod}
        first == CHOOSE i \in rows : \A j \in rows : i <= j
    IN df_cadastro[first].NomeInstituicao

\* the value-table rows that pass the registry and the variable filters
ResumoSurvivors(cod, var) ==
    {i \in 1..Len(df_resumo) :
        /\ df_resumo[i].CodInst = cod
        /\ cod \in RegistryCodes
        /\ StripVar(df_resumo[i].NomeColuna) = var
        /\ var \in RESUMO_VARS}
AtivoSurvivors(cod, col) ==
    {i \in 1..Len(df_ativo) :
        /\ df_ativo[i].CodInst = cod
        /\ cod \in RegistryCodes
        /\ df_ativo[i].NomeColuna = col
        /\ col \in target_cols}
Least(S) == CHOOSE i \in S : \A j \in S : i <= j
Greatest(S) == CHOOSE i \in S : \A j \in S : i >= j

\* the cell of the wide table for an institution and a variable
WideCell(cod, var) ==
    LET rows == {k \in 1..Len(loaded.rows) : loaded.rows[k].CodInst = cod}
    IN IF rows = {} \/ var \notin loaded.cols THEN NaN
       ELSE loaded.rows[Least(rows)].values[var]

\* the saldo of the first row of a (code, variable) pair that carries one
\* (a row with a null saldo is read as carrying no value), NaN without one
FirstResumo(cod, var) ==
    LET rows == {i \in ResumoSurvivors(cod, var) : notna(df_resumo[i].Saldo)}
    IN IF rows = {} THEN NaN
       ELSE ResumoValue(var, df_resumo[Least(rows)].Saldo)
FirstAtivo(cod, col) ==
    LET rows == {i \in AtivoSurvivors(cod, col) : notna(df_ativo[i].Saldo)}
    IN IF rows = {} THEN NaN ELSE df_ativo[Least(rows)].Saldo
LastAtivo(cod, col) ==
    IF AtivoSurvivors(cod, col) = {} THEN NaN
    ELSE df_ativo[Greatest(AtivoSurvivors(cod, col))].Saldo

\* h is |perda| / bruto * 100 rounded to 2 decimals (in hundredths)
IsLossRatio(h, perda, bruto) ==
    2 * Abs(h * bruto - Abs(perda) * 10000) <= Abs(bruto)
HasLossRatio(bruto, perda) ==
    notna(bruto) /\ notna(perda) /\ Val(bruto) # 0

\* C5 (as stated): with several rows for one (entity, variable) pair the
\* wide table holds the value of the first such row in input order, for
\* the Resumo variables and for the Ativo variables (credit operations, and
\* gross value and expected loss through the derived ratio).
C5_FirstRowWins ==
    RankingDone =>
        \A cod \in RegistryCodes :
            /\ \A var \in RESUMO_VARS :
                   WideCell(cod, var) = FirstResumo(cod, var)
            /\ WideCell(cod, OpCredito) = FirstAtivo(cod, ATIVO_COL_OP_CREDITO)
            /\ LET bruto == FirstAtivo(cod, ATIVO_COL_BRUTO)
                   perda == FirstAtivo(cod, ATIVO_COL_PERDA)
               IN IF HasLossRatio(bruto, perda)
                  THEN /\ notna(WideCell(cod, PerdaEsperada))
                       /\ IsLossRatio(Val(WideCell(cod, PerdaEsperada)),
                                      Val(perda), Val(bruto))
                  ELSE isna(WideCell(cod, PerdaEsperada))

PecRecords(cod) ==
    {i \in 1..Len(records) :
        records[i].CodInst = cod /\ records[i].Variable = PerdaEsperada}

\* C6: for every entity the derived 'Perda Esperada de Credito' has a value
\* iff the gross value and the expected loss held for the entity (those of
\* its last Ativo row each) are both non-null and the gross value is not
\* zero; the value is then |loss| / gross * 100 rounded to 2 decimals;
\* otherwise no record is emitted for it, neither zero nor null.
C6_LossRatioOnlyWhenDefined ==
    RankingDone =>
        \A cod \in InstCodes :
            LET bruto == LastAtivo(cod, ATIVO_COL_BRUTO)
                perda == LastAtivo(cod, ATIVO_COL_PERDA)
            IN IF HasLossRatio(bruto, perda)
               THEN /\ Cardinality(PecRecords(cod)) = 1
                    /\ \A i \in PecRecords(cod) :
                           /\ notna(records[i].Value)
                           /\ IsLossRatio(Val(records[i].Value),
                                          Val(perda), Val(bruto))
                           /\ WideCell(cod, PerdaEsperada) = records[i].Value
               ELSE /\ PecRecords(cod) = {}
                    /\ isna(WideCell(cod, PerdaEsperada))

\* a ratio halfway between two hundredths: |-23| / 160 * 100 is 14.375,
\* the doubles give 14.374999999999998 and round(., 2) gives 14.37
C6_Witness ==
    /\ RankingDone
    /\ \E cod \in InstCodes :
          /\ LastAtivo(cod, ATIVO_COL_BRUTO) = Num(160)
          /\ LastAtivo(cod, ATIVO_COL_PERDA) = Num(0 - 23)
          /\ WideCell(cod, PerdaEsperada) = Num(1437)

\* a value of the wide table comes from surviving rows of its table
HasOrigin(cod, var, value) ==
    \/ /\ var \in RESUMO_VARS
       /\ \E i \in ResumoSurvivors(cod, var) :
              ResumoValue(var, df_resumo[i].Saldo) = value
    \/ /\ var = OpCredito
       /\ \E i \in AtivoSurvivors(cod, ATIVO_COL_OP_CREDITO) :
              df_ativo[i].Saldo = value
    \/ /\ var = PerdaEsperada
       /\ \E i \in AtivoSurvivors(cod, ATIVO_COL_BRUTO),
             j \in AtivoSurvivors(cod, ATIVO_COL_PERDA) :
              /\ HasLossRatio(df_ativo[i].Saldo, df_ativo[j].Saldo)
              /\ IsLossRatio(Val(value), Val(df_ativo[j].Saldo),
                             Val(df_ativo[i].Saldo))

\* C7: every value of the wide table originates from value-table rows
\* whose entity is in the filtered registry and whose variable name
\* (stripped, for Resumo) is a target variable of its table; other rows
\* contribute no row, no column and no value, and raise no error.
C7_OnlyRegisteredKnownRows ==
    RankingDone =>
        /\ loaded.kind = "DataFrame"
        /\ loaded.cols \subseteq ALL_VARIABLES
        /\ \A k \in 1..Len(loaded.rows) :
               LET row == loaded.rows[k] IN
               /\ row.CodInst \in RegistryCodes
               /\ \E var \in loaded.cols : notna(row.values[var])
               /\ \A var \in loaded.cols :
                      notna(row.values[var]) =>
                          HasOrigin(row.CodInst, var, row.values[var])
        /\ \A var \in loaded.cols :
               \E k \in 1..Len(loaded.rows) : notna(loaded.rows[k].values[var])

\* rows of an entity outside the registry and rows with an unknown variable
\* name are present, and the table is built
C7_Witness ==
    /\ RankingDone
    /\ loaded.rows # <<>>
    /\ \E i \in 1..Len(df_resumo) :
          df_resumo[i].CodInst \notin RegistryCodes
    /\ \/ \E i \in 1..Len(df_ativo) : df_ativo[i].NomeColuna \notin target_cols
       \/ \E i \in 1..Len(df_resumo) :
             StripVar(df_resumo[i].NomeColuna) \notin RESUMO_VARS

\* a name without the dashes and whitespace at its end
RECURSIVE DropDecoration(_)
DropDecoration(name) ==
    IF name # <<>> /\ name[Len(name)] \in Whitespace \cup Dashes
    THEN DropDecoration(SubSeq(name, 1, Len(name) - 1))
    ELSE name
\* the registry name without its regulatory-scope suffix: the word
\* PRUDENCIAL at its end, in the letter case the registry filter accepts,
\* and the dash and whitespace before it
DisplayName(name) ==
    IF name # <<>> /\ Upper(name[Len(name)]) = "PRUDENCIAL"
    THEN DropDecoration(SubSeq(name, 1, Len(name) - 1))
    ELSE name
ValuedRecords == {i \in 1..Len(records) : notna(records[i].Value)}

\* C8: the wide table has exactly one row per entity with at least one
\* value, one column per variable that occurs, and each row carries the
\* registry name of its entity with the regulatory-scope suffix removed;
\* the join is by entity identifier, so it adds, removes or repeats no row.
C8_OneNamedRowPerEntity ==
    RankingDone =>
        /\ {loaded.rows[k].CodInst : k \in 1..Len(loaded.rows)}
              = {records[i].CodInst : i \in ValuedRecords}
        /\ \A k, l \in 1..Len(loaded.rows) :
               loaded.rows[k].CodInst = loaded.rows[l].CodInst => k = l
        /\ loaded.cols = {records[i].Variable : i \in ValuedRecords}
        /\ \A k \in 1..Len(loaded.rows) :
               /\ loaded.rows[k].CodInst \in RegistryCodes
               /\ loaded.rows[k].NomeInstituicao
                      = Num(DisplayName(RegistryName(loaded.rows[k].CodInst)))

\* the rows and columns of the wide table and the join, without the names
C8_RowsAndColumns ==
    RankingDone =>
        /\ {loaded.rows[k].CodInst : k \in 1..Len(loaded.rows)}
              = {records[i].CodInst : i \in ValuedRecords}
        /\ \A k, l \in 1..Len(loaded.rows) :
               loaded.rows[k].CodInst = loaded.rows[l].CodInst => k = l
        /\ loaded.cols = {records[i].Variable : i \in ValuedRecords}
        /\ \A k \in 1..Len(loaded.rows) :
               loaded.rows[k].CodInst \in RegistryCodes
\* a name keeps its suffix only when the suffix is not in upper case
SuffixKeptOnlyInLowerCase ==
    RankingDone =>
        \A k \in 1..Len(loaded.rows) :
            \/ loaded.rows[k].NomeInstituicao
                   = Num(DisplayName(RegistryName(loaded.rows[k].CodInst)))
            \/ /\ RegistryName(loaded.rows[k].CodInst) = NameLower
               /\ loaded.rows[k].NomeInstituicao = Num(NameLower)

NoSurvivor ==
    /\ \A cod \in InstCodes, var \in RESUMO_VARS :
           ResumoSurvivors(cod, var) = {}
    /\ \A cod \in InstCodes, col \in target_cols :
           AtivoSurvivors(cod, col) = {}

\* C9: when no value-table row survives the registry and variable filters
\* (both tables empty included), build_ranking_data returns an empty table
\* and no error.
C9_EmptyWhenNothingSurvives ==
    (RankingDone /\ NoSurvivor) => loaded = EmptyFrame

\* rows were supplied, none survived
C9_Witness ==
    /\ RankingDone
    /\ NoSurvivor
    /\ df_resumo # <<>>
    /\ df_ativo # <<>>
    /\ loaded = EmptyFrame

(***************************************************************************)
(* Ranking and bank tabs: modulo_ifdata.render_ranking_tab,                *)
(* render_bank_tab; modulo_taxas._render_ranking, _render_bank             *)
(***************************************************************************)
\* The wide table of the tabs is [cols, rows]; a row is
\* [CodInst, NomeInstituicao, values] as build_ranking_data returns it.
\* Here amounts are counted in whole units, so that the materiality
\* thresholds are the source's numbers.
MaxViewRows == 2    \* rows of the wide table shown by the IF.Data tabs
TopCount == 10
MinPatrimonio == 100000000
MinOpCredito == 200000000
MinAtivoTotal == 1000000000

\* variant of RANKING_DESC: every variable ranks larger-first
RANKING_DESC_all(v) == TRUE

\* RANKING_DESC.get(var, True)
RANKING_DESC(v) == v # PerdaEsperada

\* utils/i18n.py, t(key, lang): the texts of the four bucket labels
label_text(key, lang) ==
    IF key \in {"ifd_largest", "ifd_smallest_pec"}
    THEN (IF lang = "pt" THEN "Maiores" ELSE "Largest")
    ELSE (IF lang = "pt" THEN "Menores" ELSE "Smallest")

fillna0(c) == IF isna(c) THEN 0 ELSE Val(c)
Material(row, cols) ==
    /\ "Patrimonio Liquido" \in cols =>
           fillna0(row.values["Patrimonio Liquido"]) > MinPatrimonio
    /\ OpCredito \in cols => fillna0(row.values[OpCredito]) > MinOpCredito
    /\ "Ativo Total" \in cols =>
           fillna0(row.values["Ativo Total"]) > MinAtivoTotal
MaterialRows(t) ==
    LET Keep(row) == Material(row, t.cols) IN SelectSeq(t.rows, Keep)

\* df[[..., v]].dropna(subset=[v])
dropna(rows, v) ==
    LET Keep(row) == notna(row.values[v]) IN SelectSeq(rows, Keep)
ValuesOf(rows, v) == [i \in 1..Len(rows) |-> Val(rows[i].values[v])]

\* a list of rows held in a variable
Table(rows) == [kind |-> "DataFrame", rows |-> rows]

\* variant of head: one row is kept whatever n is
head_one(rows, n) == SubSeq(rows, 1, IF Len(rows) < 1 THEN Len(rows) ELSE 1)

head(rows, n) == SubSeq(rows, 1, IF Len(rows) < n THEN Len(rows) ELSE n)

\* variant of sort_values: the rows are left in their input order
sort_values_unsorted(rows, key, I, ascending) ==
    {[k \in 1..Cardinality(I) |->
         rows[CHOOSE i \in I : Cardinality({j \in I : j < i}) = k - 1]]}

\* rows.sort_values(col, ascending=...) over the rows with index in I, key[i]
\* the value of row i (none missing).  No `kind` is passed, so the sort is
\* pandas' default quicksort, which promises no order among rows with equal
\* values: every order that is sorted by value is a possible result.
RECURSIVE sort_values(_, _, _, _)
sort_values(rows, key, I, ascending) ==
    IF I = {} THEN {<<>>}
    ELSE LET first == {i \in I : \A k \in I :
                          IF ascending THEN key[i] <= key[k]
                                       ELSE key[i] >= key[k]}
         IN UNION {{<<rows[i]>> \o rest :
                       rest \in sort_values(rows, key, I \ {i}, ascending)} :
                   i \in first}
Sorted(rows, key, ascending) ==
    sort_values(rows, key, 1..Len(rows), ascending)

\* render_bank_tab, lines 534-583
bank_names(t) ==
    {Val(t.rows[i].NomeInstituicao) :
        i \in {j \in 1..Len(t.rows) : notna(t.rows[j].NomeInstituicao)}}
bank_row(t, bank) ==
    t.rows[CHOOSE i \in 1..Len(t.rows) :
              /\ t.rows[i].NomeInstituicao = Num(bank)
              /\ \A j \in 1..(i - 1) : t.rows[j].NomeInstituicao # Num(bank)]
CountBefore(key, val, ascending) ==
    Cardinality({i \in 1..Len(key) :
                    IF ascending THEN key[i] < val ELSE key[i] > val})
Dash == [kind |-> "dash"]
Position(t, bank, v) ==
    LET val == bank_row(t, bank).values[v]
        key == ValuesOf(dropna(t.rows, v), v)
    IN IF notna(val)
       THEN [rank |-> CountBefore(key, Val(val), ~RANKING_DESC(v)) + 1,
             n |-> Len(key)]
       ELSE Dash

\* _render_bank, lines 515-530: lower rates rank first; n is len(df_mod)
TaxBanks(rows) == {rows[i].InstituicaoFinanceira : i \in 1..Len(rows)}
TaxBankRow(rows, bank) ==
    rows[CHOOSE i \in 1..Len(rows) :
            /\ rows[i].InstituicaoFinanceira = bank
            /\ \A j \in 1..(i - 1) : rows[j].InstituicaoFinanceira # bank]
TaxPosition(rows, bank) ==
    LET rate == TaxBankRow(rows, bank).TaxaJurosAoAno
        Below(row) == notna(row.TaxaJurosAoAno)
                      /\ Val(row.TaxaJurosAoAno) < Val(rate)
    IN IF notna(rate)
       THEN [rank |-> Len(SelectSeq(rows, Below)) + 1, n |-> Len(rows)]
       ELSE Dash
\* df_latest[df_latest["TaxaJurosAoAno"] > 0]: NaN > 0 is False
PositiveRates(rows) ==
    LET Keep(row) == notna(row.TaxaJurosAoAno) /\ Val(row.TaxaJurosAoAno) > 0
    IN SelectSeq(rows, Keep)
PositiveKeys(rows) ==
    [i \in 1..Len(rows) |-> Val(rows[i].TaxaJurosAoAno)]

\* The inputs.  Institution i is named ViewNames[i].
ViewNames ==
    <<"IF 01", "IF 02", "IF 03", "IF 04", "IF 05", "IF 06", "IF 07", "IF 08",
      "IF 09", "IF 10", "IF 11", "IF 12">>
ViewCols == {"Ativo Total", PerdaEsperada}
ViewRow(i, a, p) ==
    [CodInst |-> i, NomeInstituicao |-> Num(ViewNames[i]),
     values |-> ("Ativo Total" :> a) @@ (PerdaEsperada :> p)]
AtivoCells == {NaN, Num(1000000000), Num(1500000000), Num(2000000000)}
PecCells == {NaN, Num(1), Num(2)}
ViewTables(n) ==
    {[i \in 1..n |-> ViewRow(i, a[i], p[i])] :
        a \in [1..n -> AtivoCells], p \in [1..n -> PecCells]}
\* a table longer than the ten rows shown: eleven institutions above the
\* materiality thresholds, ten of them with a loss ratio
LongAtivo ==
    <<Num(1300000000), Num(1100000000), Num(1400000000), Num(1100000000),
      Num(1500000000), Num(1900000000), NaN, Num(1600000000),
      Num(1500000000), Num(1300000000), Num(1800000000), Num(2100000000)>>
LongPec == <<Num(5), Num(3), Num(4), Num(8), Num(3), Num(1), Num(9), Num(2),
             Num(7), NaN, Num(6), Num(10)>>
LongTable == [i \in 1..12 |-> ViewRow(i, LongAtivo[i], LongPec[i])]

RateCells == {NaN, Num(0), Num(5), Num(7)}
TaxRows ==
    {[InstituicaoFinanceira |-> b, TaxaJurosAoAno |-> r] :
        b \in Banks, r \in RateCells}

InitView ==
    /\ pc = "input"
    /\ \/ /\ \E n \in 0..MaxViewRows :
                \E rows \in ViewTables(n) :
                    df_ranking = [cols |-> ViewCols, rows |-> rows]
          /\ rank_var \in ViewCols
          /\ df_mod = None
       \/ /\ df_ranking = [cols |-> ViewCols, rows |-> LongTable]
          /\ rank_var \in ViewCols \cup {"Captacoes"}
          /\ df_mod = None
       \/ /\ df_ranking = None
          /\ rank_var = ""
          /\ \E n \in 1..MaxRateRows :
                \E rows \in [1..n -> TaxRows] : df_mod = Table(rows)
    /\ df_top = None
    /\ df_bottom = None
    /\ label_left = ""
    /\ label_right = ""
    /\ df_sorted_desc = None
    /\ df_sorted_asc = None
    /\ selected_bank = ""
    /\ pos_str = None
    /\ IdleAxis
    /\ IdleRanking
    /\ IdleLatest
    /\ IdleSgs
    /\ IdleLate

\* render_ranking_tab, lines 418-472, for selected_vars = [rank_var]
RenderRankingTab ==
    /\ pc = "input"
    /\ df_ranking # None
    /\ LET filtered == MaterialRows(df_ranking)
           df_var == dropna(filtered, rank_var)
           key == ValuesOf(df_var, rank_var)
           is_desc == RANKING_DESC(rank_var)
       IN IF filtered = <<>> \/ rank_var \notin df_ranking.cols
          THEN UNCHANGED <<df_top, df_bottom, label_left, label_right>>
          ELSE IF df_var = <<>>
          THEN UNCHANGED <<df_top, df_bottom, label_left, label_right>>
          ELSE /\ \E s \in Sorted(df_var, key, ~is_desc) :
                      df_top' = Table(head(s, TopCount))
               /\ \E s \in Sorted(df_var, key, is_desc) :
                      df_bottom' = Table(head(s, TopCount))
               /\ label_left' = IF is_desc THEN "ifd_largest"
                                           ELSE "ifd_largest_pec"
               /\ label_right' = IF is_desc THEN "ifd_smallest"
                                            ELSE "ifd_smallest_pec"
    /\ pc' = "ranked"
    /\ UNCHANGED <<df_ranking, rank_var, df_mod, df_sorted_desc,
                   df_sorted_asc, selected_bank, pos_str, axisVars,
                   rankingVars, latestVars, sgsVars, lateVars>>

\* render_bank_tab, lines 518-585, opened first or after the ranking tab
\* (whose table it then shares): the position of the chosen bank for every
\* variable of the table
RenderBankTab ==
    /\ pc \in {"input", "ranked"}
    /\ df_ranking # None
    /\ IF bank_names(df_ranking) = {}
       THEN UNCHANGED <<selected_bank, pos_str>>
       ELSE \E bank \in bank_names(df_ranking) :
               /\ selected_bank' = bank
               /\ pos_str' = [v \in df_ranking.cols |->
                                 Position(df_ranking, bank, v)]
    /\ pc' = "done"
    /\ UNCHANGED <<df_ranking, rank_var, df_top, df_bottom, label_left,
                   label_right, df_mod, df_sorted_desc, df_sorted_asc, axisVars,
                   rankingVars, latestVars, sgsVars, lateVars>>

\* _render_ranking, lines 410-418, for the one modality of `data`
RenderRanking ==
    /\ pc = "input"
    /\ df_mod # None
    /\ LET positive == PositiveRates(df_mod.rows)
           key == PositiveKeys(positive)
       IN /\ \E s \in Sorted(positive, key, FALSE) :
                 df_sorted_desc' = Table(head(s, TopCount))
          /\ \E s \in Sorted(positive, key, TRUE) :
                 df_sorted_asc' = Table(head(s, TopCount))
    /\ pc' = "done"
    /\ UNCHANGED <<df_ranking, rank_var, df_top, df_bottom, label_left,
                   label_right, df_mod, selected_bank, pos_str, axisVars, rankingVars,
                   latestVars, sgsVars, lateVars>>

\* _render_bank, lines 480-530, for the one modality of `data`
RenderBank ==
    /\ pc = "input"
    /\ df_mod # None
    /\ \E bank \in TaxBanks(df_mod.rows) :
          /\ selected_bank' = bank
          /\ pos_str' = TaxPosition(df_mod.rows, bank)
    /\ pc' = "done"
    /\ UNCHANGED <<df_ranking, rank_var, df_top, df_bottom, label_left,
                   label_right, df_mod, df_sorted_desc, df_sorted_asc, axisVars,
                   rankingVars, latestVars, sgsVars, lateVars>>

NextView == RenderRankingTab \/ RenderBankTab \/ RenderRanking \/ RenderBank
SpecView == InitView /\ [][NextView]_vars

(***************************************************************************)
(* Properties of the ranking and bank tabs                                 *)
(***************************************************************************)
RankingTabDone == df_top # None /\ df_bottom # None
TaxRankingDone == pc = "done" /\ df_sorted_desc # None /\ df_sorted_asc # None
VarCell(row) == row.values[rank_var]
RateCell(row) == row.TaxaJurosAoAno
Occ(rows, row) == Cardinality({k \in 1..Len(rows) : rows[k] = row})
Precedes(a, b, ascending) == IF ascending THEN a[1] < b[1] ELSE a[1] > b[1]

\* lst is the first TopCount rows of some ordering of the rows `from` that
\* is sorted by the cell Cell(row), most extreme first
IsHeadOfSorted(lst, from, Cell(_), ascending) ==
    /\ Len(lst) = IF Len(from) < TopCount THEN Len(from) ELSE TopCount
    /\ \A k \in 1..Len(lst) : Occ(lst, lst[k]) <= Occ(from, lst[k])
    /\ \A k, l \in 1..Len(lst) :
           k < l => ~Precedes(Cell(lst[l]), Cell(lst[k]), ascending)
    /\ \A i \in 1..Len(from) :
           Occ(lst, from[i]) < Occ(from, from[i]) =>
               \A k \in 1..Len(lst) :
                   ~Precedes(Cell(from[i]), Cell(lst[k]), ascending)
NoMissing(lst, Cell(_)) == \A k \in 1..Len(lst) : notna(Cell(lst[k]))

\* the rows with a value of the ranked variable / with a rate
NonNullRows ==
    LET Keep(row) == notna(VarCell(row)) IN SelectSeq(df_ranking.rows, Keep)
NonNullRates ==
    LET Keep(row) == notna(RateCell(row)) IN SelectSeq(df_mod.rows, Keep)
\* the rows the tabs rank: institutions above the materiality thresholds
\* with a value; banks with a rate above zero
RankedRows ==
    LET Keep(row) == notna(VarCell(row)) /\ Material(row, df_ranking.cols)
    IN SelectSeq(df_ranking.rows, Keep)
RankedRates ==
    LET Keep(row) == notna(RateCell(row)) /\ RateCell(row)[1] > 0
    IN SelectSeq(df_mod.rows, Keep)
TopAscending == rank_var = PerdaEsperada

\* C12 as claimed: the two lists are the first ten rows of the non-null
\* rows of the table, sorted in the requested direction and in the
\* opposite one, and hold no row with a missing value.
C12_ListsOfNonNullRows ==
    /\ RankingTabDone =>
          /\ IsHeadOfSorted(df_top.rows, NonNullRows, VarCell, TopAscending)
          /\ IsHeadOfSorted(df_bottom.rows, NonNullRows, VarCell, ~TopAscending)
    /\ TaxRankingDone =>
          /\ IsHeadOfSorted(df_sorted_desc.rows, NonNullRates, RateCell, FALSE)
          /\ IsHeadOfSorted(df_sorted_asc.rows, NonNullRates, RateCell, TRUE)

\* C12 (amended): the two lists are the first ten rows of the ranked rows
\* (non-null value and, for institutions, above the materiality thresholds;
\* for rates, above zero) sorted most extreme first in the requested
\* direction and in the opposite one; a list's k-th row has rank k; no row
\* with a missing value is in either list.
C12_ListsOfRankedRows ==
    /\ RankingTabDone =>
          /\ IsHeadOfSorted(df_top.rows, RankedRows, VarCell, TopAscending)
          /\ IsHeadOfSorted(df_bottom.rows, RankedRows, VarCell, ~TopAscending)
          /\ NoMissing(df_top.rows, VarCell)
          /\ NoMissing(df_bottom.rows, VarCell)
    /\ TaxRankingDone =>
          /\ IsHeadOfSorted(df_sorted_desc.rows, RankedRates, RateCell, FALSE)
          /\ IsHeadOfSorted(df_sorted_asc.rows, RankedRates, RateCell, TRUE)
          /\ NoMissing(df_sorted_desc.rows, RateCell)
          /\ NoMissing(df_sorted_asc.rows, RateCell)

\* eleven rows are ranked and ten are shown, a row with a missing value is
\* left out, and the two lists differ
C12_Witness ==
    /\ RankingTabDone
    /\ Len(RankedRows) > TopCount
    /\ Len(df_top.rows) = TopCount
    /\ Len(df_ranking.rows) > Len(NonNullRows)
    /\ df_top # df_bottom

BankTabDone == df_ranking # None /\ pos_str # None
\* the values of variable v in the wide table, missing ones left out
ColumnValues(v) ==
    {i \in 1..Len(df_ranking.rows) : notna(df_ranking.rows[i].values[v])}
ValueAt(i, v) == df_ranking.rows[i].values[v][1]
SelectedRow ==
    CHOOSE i \in 1..Len(df_ranking.rows) :
        /\ df_ranking.rows[i].NomeInstituicao = Num(selected_bank)
        /\ \A j \in 1..(i - 1) :
               df_ranking.rows[j].NomeInstituicao # Num(selected_bank)
Smaller(v) == {i \in ColumnValues(v) : ValueAt(i, v) < ValueAt(SelectedRow, v)}
Larger(v) == {i \in ColumnValues(v) : ValueAt(i, v) > ValueAt(SelectedRow, v)}

\* C13: for the smaller-is-better variable (Perda Esperada de Credito) the
\* left, "largest"-side bucket lists the rows in ascending order and the
\* right one in descending order, and the two labels are the inverted
\* pair, so each label names the values its bucket shows; for every other
\* variable the left bucket lists the rows in descending order under the
\* plain labels.  The bank tab counts, for that variable, the strictly
\* smaller values and, for every other variable, the strictly larger ones.
C13_InvertedTogether ==
    /\ RankingTabDone =>
          /\ IsHeadOfSorted(df_top.rows, RankedRows, VarCell,
                            rank_var = PerdaEsperada)
          /\ IsHeadOfSorted(df_bottom.rows, RankedRows, VarCell,
                            rank_var # PerdaEsperada)
          /\ <<label_left, label_right>> =
                 IF rank_var = PerdaEsperada
                 THEN <<"ifd_largest_pec", "ifd_smallest_pec">>
                 ELSE <<"ifd_largest", "ifd_smallest">>
          /\ label_text(label_left, "en") =
                 IF rank_var = PerdaEsperada THEN "Smallest" ELSE "Largest"
          /\ label_text(label_left, "pt") =
                 IF rank_var = PerdaEsperada THEN "Menores" ELSE "Maiores"
          /\ label_text(label_right, "en") # label_text(label_left, "en")
          /\ label_text(label_right, "pt") # label_text(label_left, "pt")
    /\ BankTabDone =>
          \A v \in df_ranking.cols :
              pos_str[v] # Dash =>
                  pos_str[v].rank =
                      1 + Cardinality(IF v = PerdaEsperada THEN Smaller(v)
                                                           ELSE Larger(v))

\* the loss ratio is ranked, the left list rises and the right one falls
C13_Witness ==
    /\ RankingTabDone
    /\ rank_var = PerdaEsperada
    /\ Len(df_top.rows) >= 2
    /\ VarCell(df_top.rows[1])[1] < VarCell(df_top.rows[2])[1]
    /\ VarCell(df_bottom.rows[1])[1] > VarCell(df_bottom.rows[2])[1]
    /\ label_left = "ifd_largest_pec"

\* the rows `from` sorted by Cell, rows with equal cells in input order
StableOrder(from, Cell(_), ascending) ==
    [k \in 1..Len(from) |->
        from[CHOOSE i \in 1..Len(from) :
                Cardinality({j \in 1..Len(from) :
                    \/ Precedes(Cell(from[j]), Cell(from[i]), ascending)
                    \/ Cell(from[j]) = Cell(from[i]) /\ j < i}) = k - 1]]

\* C14: in both lists of both ranking tabs, rows with equal values appear
\* in their input order, i.e. each list is the head of the stable sort.
C14_TiesInInputOrder ==
    /\ RankingTabDone =>
          /\ df_top.rows =
                 head(StableOrder(RankedRows, VarCell, TopAscending), TopCount)
          /\ df_bottom.rows =
                 head(StableOrder(RankedRows, VarCell, ~TopAscending), TopCount)
    /\ TaxRankingDone =>
          /\ df_sorted_desc.rows =
                 head(StableOrder(RankedRates, RateCell, FALSE), TopCount)
          /\ df_sorted_asc.rows =
                 head(StableOrder(RankedRates, RateCell, TRUE), TopCount)

TaxBankDone == pc = "done" /\ df_mod # None /\ pos_str # None
RatedRows == {i \in 1..Len(df_mod.rows) : notna(df_mod.rows[i].TaxaJurosAoAno)}
SelectedRate ==
    LET i == CHOOSE i \in 1..Len(df_mod.rows) :
                 /\ df_mod.rows[i].InstituicaoFinanceira = selected_bank
                 /\ \A j \in 1..(i - 1) :
                        df_mod.rows[j].InstituicaoFinanceira # selected_bank
    IN df_mod.rows[i].TaxaJurosAoAno
LowerRates ==
    {i \in RatedRows : df_mod.rows[i].TaxaJurosAoAno[1] < SelectedRate[1]}

\* C15: in both bank tabs the position shown is the number of rows with a
\* strictly more extreme value plus one, and the denominator shown with it
\* is the number of rows with a non-null value.
C15_PositionAndDenominator ==
    /\ BankTabDone =>
          \A v \in df_ranking.cols :
              pos_str[v] # Dash =>
                  /\ pos_str[v].rank =
                         1 + Cardinality(IF RANKING_DESC(v) THEN Larger(v)
                                                            ELSE Smaller(v))
                  /\ pos_str[v].n = Cardinality(ColumnValues(v))
    /\ TaxBankDone =>
          (pos_str # Dash =>
              /\ pos_str.rank = 1 + Cardinality(LowerRates)
              /\ pos_str.n = Cardinality(RatedRows))

\* the same statement for the institution tab alone
IfdPositionAndDenominator ==
    BankTabDone =>
        \A v \in df_ranking.cols :
            pos_str[v] # Dash =>
                /\ pos_str[v].rank =
                       1 + Cardinality(IF RANKING_DESC(v) THEN Larger(v)
                                                          ELSE Smaller(v))
                /\ pos_str[v].n = Cardinality(ColumnValues(v))

\* the place of the selected institution's row in the left list
ListPosition ==
    {k \in 1..Len(df_top.rows) : df_top.rows[k] = df_ranking.rows[SelectedRow]}

\* C16: an institution listed by the ranking tab stands in the list at the
\* position the bank tab computes for it, ties included.  The statement is
\* made for tables on which the materiality filter of the ranking tab drops
\* no row, so that both tabs rank the same institutions.
C16_ListPositionIsFormula ==
    (/\ RankingTabDone
     /\ BankTabDone
     /\ MaterialRows(df_ranking) = df_ranking.rows
     /\ pos_str[rank_var] # Dash) =>
        \A k \in ListPosition : k = pos_str[rank_var].rank

\* Top-N followed by Bottom-N; sorting it again moves rows and neither adds
\* nor removes one, so the counts below are those of the re-sorted list
Concatenated == df_top.rows \o df_bottom.rows
\* N covers the population: head(10) returns every ranked row
ListsAreFull == RankingTabDone /\ Len(RankedRows) <= TopCount

\* C17 as claimed: when N covers the non-null population, the two lists
\* put together hold every non-null row exactly once and nothing else.
C17_ConcatenationOnce ==
    (RankingTabDone /\ Len(NonNullRows) <= TopCount) =>
        /\ \A i \in 1..Len(NonNullRows) :
               Occ(Concatenated, NonNullRows[i]) = 1
        /\ \A k \in 1..Len(Concatenated) :
               Occ(NonNullRows, Concatenated[k]) = 1

\* C17 (amended): when N covers the ranked population, each of the two
\* lists holds every ranked row exactly once and nothing else, so the two
\* lists put together hold every ranked row exactly twice.
C17_EachListOnce ==
    ListsAreFull =>
        /\ \A i \in 1..Len(RankedRows) :
               /\ Occ(df_top.rows, RankedRows[i]) = 1
               /\ Occ(df_bottom.rows, RankedRows[i]) = 1
               /\ Occ(Concatenated, RankedRows[i]) = 2
        /\ \A k \in 1..Len(Concatenated) :
               Occ(RankedRows, Concatenated[k]) = 1

\* several rows are ranked, all of them listed, and a row is left out
C17_Witness ==
    /\ ListsAreFull
    /\ Len(RankedRows) >= 2
    /\ Len(df_ranking.rows) > Len(RankedRows)
    /\ Len(Concatenated) = 2 * Len(RankedRows)

(***************************************************************************)
(* modulo_sgs.resample_data and the query step of modulo_sgs.render        *)
(***************************************************************************)
\* The queried table is a sequence of rows [Date, value] in increasing date
\* order (fetch_sgs_data sorts the index), one series wide.  A date is
\* <<year, month, day>>.  A value is NaN or Num(v) with v a double.
MaxSgsRows == 3     \* rows of the queried table

\* the group's running sum with Kahan compensation, over the values that
\* are present, in row order: st is [sumx, compensation]
RECURSIVE KahanSum(_, _)
KahanSum(vals, st) ==
    IF vals = <<>> THEN st.sumx
    ELSE LET y == FSub(Head(vals), st.compensation)
             t == FAdd(st.sumx, y)
         IN KahanSum(Tail(vals),
                     [sumx |-> t,
                      compensation |-> FSub(FSub(t, st.sumx), y)])
\* the mean of a group: missing values are skipped; NaN when nothing is
\* left, otherwise the compensated sum divided by the number of values
Mean(cells) ==
    LET present == SelectSeq(cells, notna)
        vals == [i \in 1..Len(present) |-> Val(present[i])]
    IN IF present = <<>> THEN NaN
       ELSE Num(FDivInt(KahanSum(vals, [sumx |-> FZero,
                                        compensation |-> FZero]),
                        Len(present)))

IsLeap(y) == (y % 4 = 0 /\ y % 100 # 0) \/ y % 400 = 0
DaysInMonth(y, m) ==
    IF m = 2 THEN (IF IsLeap(y) THEN 29 ELSE 28)
    ELSE IF m \in {4, 6, 9, 11} THEN 30 ELSE 31
\* the number of the period a date falls in: months or years counted from
\* year 0
PeriodOf(date, pd_freq) ==
    IF pd_freq = "ME" THEN date[1] * 12 + (date[2] - 1) ELSE date[1]
\* variant of PeriodLabel: a period is labelled by the day after its end
PeriodLabel_next(p, pd_freq) ==
    IF pd_freq = "ME"
    THEN <<(p + 1) \div 12, ((p + 1) % 12) + 1, 1>>
    ELSE <<p + 1, 1, 1>>

\* the label of a period: its last day (month end "ME", year end "YE")
PeriodLabel(p, pd_freq) ==
    IF pd_freq = "ME"
    THEN <<p \div 12, (p % 12) + 1, DaysInMonth(p \div 12, (p % 12) + 1)>>
    ELSE <<p, 12, 31>>

freq_map(freq) == IF freq = "M" THEN "ME" ELSE IF freq = "A" THEN "YE" ELSE freq

\* df.resample(pd_freq).mean(): one row for every period from the period of
\* the first row to the period of the last row
resample_data(rows, freq) ==
    LET pd_freq == freq_map(freq)
        first == PeriodOf(rows[1].Date, pd_freq)
        last == PeriodOf(rows[Len(rows)].Date, pd_freq)
        InPeriod(p) ==
            LET Keep(row) == PeriodOf(row.Date, pd_freq) = p
            IN SelectSeq(rows, Keep)
        Cells(sel) == [i \in 1..Len(sel) |-> sel[i].value]
    IN IF rows = <<>> THEN <<>>
       ELSE [k \in 1..(last - first + 1) |->
                [Date |-> PeriodLabel(first + k - 1, pd_freq),
                 value |-> Mean(Cells(InPeriod(first + k - 1)))]]

SgsDates ==
    <<<<2023, 1, 15>>, <<2023, 1, 31>>, <<2023, 2, 28>>, <<2023, 3, 1>>,
      <<2023, 12, 31>>, <<2024, 2, 29>>, <<2025, 1, 1>>>>
SgsCells == {NaN, Num(FromInt(10)), Num(FromInt(25)), Num(FDivInt(FromInt(1), 10))}
\* strictly increasing choices of n dates
Increasing(n) ==
    {f \in [1..n -> 1..Len(SgsDates)] : \A i \in 1..(n - 1) : f[i] < f[i + 1]}
SgsTables(n) ==
    {[i \in 1..n |-> [Date |-> SgsDates[f[i]], value |-> c[i]]] :
        f \in Increasing(n), c \in [1..n -> SgsCells]}

InitSgs ==
    /\ pc = "input"
    /\ \E n \in 1..MaxSgsRows : \E rows \in SgsTables(n) : sgs_df = Table(rows)
    /\ resample_value \in {"original", "M", "A"}
    /\ sgs_data = None
    /\ again = None
    /\ IdleAxis
    /\ IdleRanking
    /\ IdleLatest
    /\ IdleView
    /\ IdleLate

\* render, lines 684-692: the fetched table, resampled unless the frequency
\* option is "original", is stored in the session
Query ==
    /\ pc = "input"
    /\ sgs_df # None
    /\ sgs_data' = IF resample_value # "original"
                   THEN Table(resample_data(sgs_df.rows, resample_value))
                   ELSE sgs_df
    /\ pc' = "queried"
    /\ UNCHANGED <<sgs_df, resample_value, again, axisVars, rankingVars,
                   latestVars, viewVars, lateVars>>

\* resample_data applied to its own output with the same frequency
ResampleAgain ==
    /\ pc = "queried"
    /\ resample_value # "original"
    /\ again' = Table(resample_data(sgs_data.rows, resample_value))
    /\ pc' = "done"
    /\ UNCHANGED <<sgs_df, resample_value, sgs_data, axisVars, rankingVars,
                   latestVars, viewVars, lateVars>>

NextSgs == Query \/ ResampleAgain
SpecSgs == InitSgs /\ [][NextSgs]_vars

(***************************************************************************)
(* Properties of resample_data                                             *)
(***************************************************************************)
Resampled == sgs_data # None /\ resample_value # "original"
\* the observations of the queried series: rows with a value
Observed == {i \in 1..Len(sgs_df.rows) : notna(sgs_df.rows[i].value)}
SamePeriod(d, e) ==
    IF resample_value = "M" THEN d[1] = e[1] /\ d[2] = e[2] ELSE d[1] = e[1]
ObservedIn(date) == {i \in Observed : SamePeriod(sgs_df.rows[i].Date, date)}
\* 2^-40, the tolerance of a mean computed in doubles
MeanTolerance == [sg |-> 1, m |-> FromInt(1).m, e |-> FromInt(1).e - 40]
\* x is the arithmetic mean of the observations with index in I: x times
\* their number is their sum, up to the rounding of doubles
IsMeanOf(x, I) ==
    \E order \in [1..Cardinality(I) -> I] :
        /\ \A a, b \in 1..Cardinality(I) : a # b => order[a] # order[b]
        /\ LET total == FloatSum([k \in 1..Cardinality(I) |->
                                     Val(sgs_df.rows[order[k]].value)], FZero)
           IN FLess(FAbs(FSub(FMul(Val(x), FromInt(Cardinality(I))), total)),
                    MeanTolerance)
OutputRows(date) ==
    {k \in 1..Len(sgs_data.rows) : SamePeriod(sgs_data.rows[k].Date, date)}

\* every period with an observation has exactly one output row, holding
\* the mean of its observations; pass-through stores the table unchanged
MeansOfObservedPeriods ==
    /\ Resampled =>
          \A i \in Observed :
              /\ Cardinality(OutputRows(sgs_df.rows[i].Date)) = 1
              /\ \A k \in OutputRows(sgs_df.rows[i].Date) :
                     /\ notna(sgs_data.rows[k].value)
                     /\ IsMeanOf(sgs_data.rows[k].value,
                                 ObservedIn(sgs_df.rows[i].Date))
    /\ (sgs_data # None /\ resample_value = "original") => sgs_data = sgs_df

\* the period of the date lies after the period of one observation and
\* before the period of another
BetweenObservations(date) ==
    LET P(d) == PeriodOf(d, freq_map(resample_value)) IN
    \E i, j \in Observed :
        /\ P(sgs_df.rows[i].Date) < P(date)
        /\ P(date) < P(sgs_df.rows[j].Date)

\* C18: resample_data outputs the mean of every period that has an
\* observation, and no row at all for a period between the first and the
\* last observation that has none; pass-through leaves the queried table
\* unchanged.
C18_NoRowForEmptyPeriod ==
    /\ MeansOfObservedPeriods
    /\ Resampled =>
          \A k \in 1..Len(sgs_data.rows) :
              BetweenObservations(sgs_data.rows[k].Date) =>
                  ObservedIn(sgs_data.rows[k].Date) # {}

\* C19: resampling the monthly (annual) output of resample_data to monthly
\* (annual) again yields the same rows: same period labels, same values.
C19_ResampleIdempotent ==
    (pc = "done" /\ again # None) => again = sgs_data

\* the first pass averaged two observations of one period and emitted a row
\* for a period without observations; the second pass changed nothing
C19_Witness ==
    /\ pc = "done"
    /\ again = sgs_data
    /\ sgs_data # sgs_df
    /\ \E k \in 1..Len(sgs_data.rows) :
           Cardinality(ObservedIn(sgs_data.rows[k].Date)) >= 2
    /\ \E k \in 1..Len(sgs_data.rows) : isna(sgs_data.rows[k].value)

(***************************************************************************)
(* modulo_sgs.make_combined_chart: the forward-filled table that is drawn  *)
(***************************************************************************)
MaxChartCols == 2   \* series drawn together
MaxChartObs == 3    \* timestamps of the common index

\* variant of ffill: a missing value becomes zero
ffill_zero(col, i) == IF notna(col[i]) THEN col[i] ELSE Num(0)

\* Series.ffill() at position i: the value at i, else the value at the
\* nearest earlier position that has one, else still missing
RECURSIVE ffill(_, _)
ffill(col, i) ==
    IF i = 0 THEN NaN
    ELSE IF notna(col[i]) THEN col[i]
    ELSE ffill(col, i - 1)
\* df[columns].ffill()
ForwardFilled(t, cols) ==
    [c \in 1..Len(cols) |->
        [i \in 1..Len(t[cols[c]]) |-> ffill(t[cols[c]], i)]]

\* Values in tenths.  The first series holds missing values, 1.0 and 2.0,
\* the series drawn with it missing values and 2.0.
ChartCells == {NaN, Num(10), Num(20)}
OtherCells == {NaN, Num(20)}
ChartTables(n, r) ==
    {<<first>> \o others :
        first \in [1..r -> ChartCells],
        others \in [1..(n - 1) -> [1..r -> OtherCells]]}

InitChart ==
    /\ pc = "input"
    /\ \E n \in 1..MaxChartCols, r \in 1..MaxChartObs : df \in ChartTables(n, r)
    /\ columns = [i \in 1..Len(df) |-> i]
    /\ log10_ties \in SUBSET CloseCalls(df, columns)
    /\ axis = None
    /\ df_plot = None
    /\ IdleRanking
    /\ IdleLatest
    /\ IdleView
    /\ IdleSgs
    /\ IdleLate

\* make_combined_chart, lines 252-275: the axis decision is taken on the
\* table as queried, the traces are drawn from the forward-filled table
MakeCombinedChart ==
    /\ pc = "input"
    /\ df_plot = None
    /\ axis' = should_use_dual_axis(df, columns)
    /\ df_plot' = [kind |-> "DataFrame", data |-> ForwardFilled(df, columns)]
    /\ pc' = "done"
    /\ UNCHANGED <<df, columns, log10_ties, rankingVars, latestVars, viewVars,
                   sgsVars, lateVars>>

NextChart == MakeCombinedChart
SpecChart == InitChart /\ [][NextChart]_vars

(***************************************************************************)
(* Properties of the forward fill                                          *)
(***************************************************************************)
ChartDone == pc = "done" /\ df_plot # None
\* the timestamps up to i at which series c has an observation
Earlier(c, i) == {j \in 1..i : notna(df[c][j])}
Latest(S) == CHOOSE j \in S : \A k \in S : k <= j

\* C20: in the table drawn, a series' value at a timestamp is its own most
\* recent observation at or before that timestamp, whatever the other
\* series hold there, and is still missing when the series has no
\* observation yet.
C20_ForwardFill ==
    ChartDone =>
        /\ Len(df_plot.data) = Len(columns)
        /\ \A c \in 1..Len(columns) :
               /\ Len(df_plot.data[c]) = Len(df[c])
               /\ \A i \in 1..Len(df[c]) :
                      df_plot.data[c][i] =
                          IF Earlier(c, i) = {} THEN NaN
                          ELSE df[c][Latest(Earlier(c, i))]

\* one series is observed at 1.0, then missing, then 2.0, and its gap is
\* filled with 1.0 while the other series holds 2.0 there; the other series
\* starts missing and stays so
C20_Witness ==
    /\ ChartDone
    /\ Len(columns) = 2
    /\ df[1] = <<Num(10), NaN, Num(20)>>
    /\ df[2][1] = NaN /\ df[2][2] = Num(20)
    /\ df_plot.data[1] = <<Num(10), Num(10), Num(20)>>
    /\ df_plot.data[2][1] = NaN

(***************************************************************************)
(* modulo_inad.make_brazil_map: shading factors and fill colours           *)
(***************************************************************************)
\* state_data maps a state to [pf, pj]; a value is NaN / None or Num(x) for
\* a double x, a percentage.  The map is drawn for the first MaxUF states
\* of MapStates, which are the region SE and states of the region S; the
\* GeoJSON is taken to be loaded and to hold one feature per state.
MaxUF == 4          \* states drawn

MapStates == <<"ES", "MG", "RJ", "SP", "PR", "RS">>
ALL_STATES == {MapStates[i] : i \in 1..MaxUF}
\* lines 29-40
STATE_TO_REGION(uf) ==
    IF uf \in {"AC", "AP", "AM", "PA", "RO", "RR", "TO"} THEN "N"
    ELSE IF uf \in {"AL", "BA", "CE", "MA", "PB", "PE", "PI", "RN", "SE"}
    THEN "NE"
    ELSE IF uf \in {"DF", "GO", "MT", "MS"} THEN "CO"
    ELSE IF uf \in {"ES", "MG", "RJ", "SP"} THEN "SE"
    ELSE "S"
\* lines 48-54, the six digits after "#": "#22D3EE", "#34D399", "#FBBF24",
\* "#FB7185", "#A78BFA"
REGION_COLORS(reg) ==
    IF reg = "N" THEN <<"2", "2", "d", "3", "e", "e">>
    ELSE IF reg = "NE" THEN <<"3", "4", "d", "3", "9", "9">>
    ELSE IF reg = "CO" THEN <<"f", "b", "b", "f", "2", "4">>
    ELSE IF reg = "SE" THEN <<"f", "b", "7", "1", "8", "5">>
    ELSE <<"a", "7", "8", "b", "f", "a">>

HexDigits ==
    <<"0", "1", "2", "3", "4", "5", "6", "7", "8", "9", "a", "b", "c", "d",
      "e", "f">>
HexValue(d) == (CHOOSE k \in 1..16 : HexDigits[k] = d) - 1
\* int(hex_color[1:3], 16) and the two channels after it: channel c of 1..3
ParseChannel(hex, c) == HexValue(hex[2 * c - 1]) * 16 + HexValue(hex[2 * c])
RECURSIVE HexOf(_)
HexOf(n) ==
    IF n < 16 THEN <<HexDigits[n + 1]>>
    ELSE HexOf(n \div 16) \o <<HexDigits[(n % 16) + 1]>>
\* f"{c:02x}"
Format02x(c) ==
    IF c < 0 THEN <<"-">> \o HexOf(0 - c)
    ELSE IF c < 16 THEN <<"0">> \o HexOf(c)
    ELSE HexOf(c)

\* [v for v in [pf, pj] if v is not None and pd.notna(v)]
PresentValues(cell) ==
    (IF notna(cell.pf) THEN <<Val(cell.pf)>> ELSE <<>>)
    \o (IF notna(cell.pj) THEN <<Val(cell.pj)>> ELSE <<>>)
\* float(np.mean(vals)) if vals else None: the sum of the one or two
\* doubles, divided by their number
MeanOrNone(vals) ==
    IF vals = <<>> THEN NaN
    ELSE Num(FDivInt(FloatSum(vals, FZero), Len(vals)))
\* lines 224-228: the mean of the state's values that are present, or None
npl_avg(data, uf) == MeanOrNone(PresentValues(data[uf]))
\* lines 234-240: (min, max) of the region's averages, or (0, 1)
RegionAverages(data, reg) ==
    {Val(npl_avg(data, uf)) :
        uf \in {u \in ALL_STATES : STATE_TO_REGION(u) = reg
                                   /\ notna(npl_avg(data, u))}}
FloatMin(S) == CHOOSE x \in S : \A y \in S : ~FLess(y, x)
FloatMax(S) == CHOOSE x \in S : \A y \in S : ~FLess(x, y)
RangeOf(vals) ==
    IF vals # {} /\ FLess(FloatMin(vals), FloatMax(vals))
    THEN <<FloatMin(vals), FloatMax(vals)>>
    ELSE <<FromInt(0), FromInt(1)>>
region_ranges(data, reg) == RangeOf(RegionAverages(data, reg))

\* lines 273-277: the quotient of two differences of doubles, or 0.5
FloatHalf == FDivInt(FromInt(1), 2)
FactorIn(avg, rng) ==
    IF notna(avg) /\ FLess(rng[1], rng[2])
    THEN FDiv(FSub(Val(avg), rng[1]), FSub(rng[2], rng[1]))
    ELSE FloatHalf
shade_factor(data, uf) ==
    FactorIn(npl_avg(data, uf), region_ranges(data, STATE_TO_REGION(uf)))

\* the literals 0.3, 0.7, 1 and 255 of lines 247-250 as doubles
Float03 == FromFrac(3, 10)
Float07 == FromFrac(7, 10)
Float1 == FromInt(1)
Float255 == FromInt(255)
\* line 247: blend = 0.3 + 0.7 * factor
blend(factor) == FAdd(Float03, FMul(Float07, factor))
\* c * blend + 255 * (1 - blend) of lines 248-250, for the blend b
Mixed(c, b) == FAdd(FMul(FromInt(c), b), FMul(Float255, FSub(Float1, b)))
Blended(base, factor) == Mixed(base, blend(factor))
\* min(255, int(x))
Min255(x) == IF FLess(Float255, x) THEN 255 ELSE FTrunc(x)
\* lines 248-250: one channel of shade_color,
\* min(255, int(c * blend + 255 * (1 - blend)))
ShadeChannel(base, factor) == Min255(Blended(base, factor))
shade_color(hex_color, factor) ==
    <<"#">> \o Format02x(ShadeChannel(ParseChannel(hex_color, 1), factor))
            \o Format02x(ShadeChannel(ParseChannel(hex_color, 2), factor))
            \o Format02x(ShadeChannel(ParseChannel(hex_color, 3), factor))

\* the double a percentage of v hundredths is read as
Percent(v) == Num(FDivInt(FromInt(v), 100))
\* What a state reports: nothing; 3.33 for pf only; 18.24 for pj only;
\* 7.13 and 7.15, whose mean on doubles is 7.140000000000001; 7.14 for pf
\* only.
StateCells ==
    {[pf |-> NaN, pj |-> NaN],
     [pf |-> Percent(333), pj |-> NaN],
     [pf |-> NaN, pj |-> Percent(1824)],
     [pf |-> Percent(713), pj |-> Percent(715)],
     [pf |-> Percent(714), pj |-> NaN]}

InitMap ==
    /\ pc = "input"
    /\ state_data \in [ALL_STATES -> StateCells]
    /\ factors = None
    /\ fill_colors = None
    /\ IdleRestOfMap

\* make_brazil_map, lines 220-279, for the features of the drawn states
MakeBrazilMap ==
    /\ pc = "input"
    /\ factors = None
    /\ factors' = [uf \in ALL_STATES |-> shade_factor(state_data, uf)]
    /\ fill_colors' =
           [uf \in ALL_STATES |->
               shade_color(REGION_COLORS(STATE_TO_REGION(uf)), factors'[uf])]
    /\ pc' = "done"
    /\ UNCHANGED <<state_data, restOfMap>>

NextMap == MakeBrazilMap
SpecMap == InitMap /\ [][NextMap]_vars

(***************************************************************************)
(* Properties of the shading                                               *)
(***************************************************************************)
MapDone == pc = "done" /\ factors # None
\* the value shown for a state, the mean of its two rates, and the states
\* of its region that have one
StateAvg(uf) == npl_avg(state_data, uf)
Peers(uf) ==
    {u \in ALL_STATES :
        STATE_TO_REGION(u) = STATE_TO_REGION(uf) /\ notna(StateAvg(u))}
\* the region's minimum equals its maximum (a single value included)
Degenerate(uf) ==
    \A u, w \in Peers(uf) : ~FLess(Val(StateAvg(u)), Val(StateAvg(w)))
InUnitInterval(x) == ~FLess(x, FZero) /\ ~FLess(Float1, x)

\* C21: every factor lies in [0, 1]; it is (value - min) / (max - min) over
\* the region's non-missing values, and exactly 0.5 when the region's
\* minimum equals its maximum, when the whole region is missing or when the
\* state's own value is missing.
C21_FactorInUnitInterval ==
    MapDone =>
        \A uf \in ALL_STATES :
            /\ InUnitInterval(factors[uf])
            /\ (isna(StateAvg(uf)) \/ Degenerate(uf)) =>
                   factors[uf] = FloatHalf
            /\ (notna(StateAvg(uf)) /\ ~Degenerate(uf)) =>
                   \E lo, hi \in Peers(uf) :
                       /\ \A u \in Peers(uf) :
                              /\ ~FLess(Val(StateAvg(u)), Val(StateAvg(lo)))
                              /\ ~FLess(Val(StateAvg(hi)), Val(StateAvg(u)))
                       /\ factors[uf] =
                              FDiv(FSub(Val(StateAvg(uf)), Val(StateAvg(lo))),
                                   FSub(Val(StateAvg(hi)), Val(StateAvg(lo))))

\* the same statement without the regions whose minimum equals their
\* maximum
FactorOfSpreadRegions ==
    MapDone =>
        \A uf \in ALL_STATES :
            /\ isna(StateAvg(uf)) => factors[uf] = FloatHalf
            /\ ~Degenerate(uf) => InUnitInterval(factors[uf])

BaseChannels(uf) ==
    [c \in 1..3 |-> ParseChannel(REGION_COLORS(STATE_TO_REGION(uf)), c)]
IsHexColour(colour) ==
    /\ Len(colour) = 7
    /\ colour[1] = "#"
    /\ \A i \in 2..7 : \E k \in 1..16 : HexDigits[k] = colour[i]
\* round(base * blend + 255 * (1 - blend)), clamped into [0, 255]
ClampedRound(base, factor) ==
    LET r == FRoundInt(Blended(base, factor))
    IN IF r < 0 THEN 0 ELSE IF r > 255 THEN 255 ELSE r
TwoHex(c) == <<HexDigits[(c \div 16) + 1], HexDigits[(c % 16) + 1]>>

\* C22: every channel of a fill colour is round(base * blend + 255 *
\* (1 - blend)) with blend = 0.3 + 0.7 * factor, clamped into [0, 255], so
\* the colour is "#" followed by six hexadecimal digits.
C22_ChannelsRoundedAndClamped ==
    MapDone =>
        \A uf \in ALL_STATES :
            /\ IsHexColour(fill_colors[uf])
            /\ fill_colors[uf] =
                   <<"#">>
                   \o TwoHex(ClampedRound(BaseChannels(uf)[1], factors[uf]))
                   \o TwoHex(ClampedRound(BaseChannels(uf)[2], factors[uf]))
                   \o TwoHex(ClampedRound(BaseChannels(uf)[3], factors[uf]))

\* the colour is well formed whenever the factor is within [0, 1]
ValidColourOnUnitFactors ==
    MapDone =>
        \A uf \in ALL_STATES :
            InUnitInterval(factors[uf]) => IsHexColour(fill_colors[uf])

\* channel c of a drawn colour
ColourChannel(colour, c) == ParseChannel(Tail(colour), c)
\* a has the larger value of two states of one region
LargerInRegion(a, b) ==
    /\ STATE_TO_REGION(a) = STATE_TO_REGION(b)
    /\ notna(StateAvg(a))
    /\ notna(StateAvg(b))
    /\ FLess(Val(StateAvg(b)), Val(StateAvg(a)))

\* C23: within a region, a state with a larger value has a factor at least
\* as large, and each channel of its colour is at least as close to the
\* region's base colour and no closer to 255.
C23_ShadingMonotonic ==
    MapDone =>
        \A a, b \in ALL_STATES :
            LargerInRegion(a, b) =>
                /\ ~FLess(factors[a], factors[b])
                /\ \A c \in 1..3 :
                       /\ BaseChannels(a)[c] <= ColourChannel(fill_colors[a], c)
                       /\ ColourChannel(fill_colors[a], c)
                              <= ColourChannel(fill_colors[b], c)
                       /\ ColourChannel(fill_colors[b], c) <= 255

\* the factors are ordered like the values
FactorsMonotonic ==
    MapDone =>
        \A a, b \in ALL_STATES :
            LargerInRegion(a, b) => ~FLess(factors[a], factors[b])
\* a channel of the state with the larger value is above the other
\* state's by one level at most
ChannelsMonotonicWithinOne ==
    MapDone =>
        \A a, b \in ALL_STATES :
            LargerInRegion(a, b) =>
                \A c \in 1..3 :
                    ColourChannel(fill_colors[a], c)
                        <= ColourChannel(fill_colors[b], c) + 1

(***************************************************************************)
(* Remote fetches that fail: modulo_inad.load_all_data and                 *)
(* _render_state_detail, modulo_taxas._load_all_latest, the fetch loop of  *)
(* modulo_ifdata.render_download_tab                                       *)
(***************************************************************************)
\* A fetch is named <<kind, location or modality or report, mode>>.  The
\* remote service answers each with "data" or with an empty table
\* ("empty"), or the fetch raises: in the request itself ("error") or
\* before it, while the client and its endpoint are built ("no_endpoint").
FetchFailures == {"error", "no_endpoint"}
MaxFail == 2        \* fetches that do not answer with data

NplModes == {"pf", "pj"}
REGIONS == {STATE_TO_REGION(uf) : uf \in ALL_STATES}
LastKeys == {<<"last", l, m>> : l \in ALL_STATES \cup REGIONS, m \in NplModes}
RangeKeys ==
    {<<"range", l, m>> : l \in ALL_STATES \cup REGIONS, m \in NplModes}
RateKeys == {<<"rates", m, "">> : m \in ALL_MODALITIES}
ValoresKeys == {<<"valores", r, "">> : r \in {"Resumo", "Ativo"}}
FetchKeys == LastKeys \cup RangeKeys \cup RateKeys \cup ValoresKeys

\* the value kept for a fetch made inside its own try / except: the data,
\* or nothing when the answer is empty or the fetch raised
safe_fetch(answer) == IF answer = "data" THEN "data" ELSE "none"
\* fetch_valores, lines 92-101: only ep.get (line 98) is inside the try, so
\* an exception of the request becomes an empty table and an exception of
\* IFDATA() or get_endpoint (lines 95-96) leaves the function ("raise")
fetch_valores(answer) ==
    IF answer = "no_endpoint" THEN "raise"
    ELSE IF answer = "error" THEN "empty"
    ELSE answer

\* load_all_data: latest values of every state and region, series of the
\* regions
LoadAllDataPlan ==
    LastKeys \cup {k \in RangeKeys : k[2] \in REGIONS}
\* _render_state_detail: the four fetches, in call order
StateDetailPlan(uf) ==
    <<<<"range", uf, "pf">>, <<"range", uf, "pj">>,
      <<"range", STATE_TO_REGION(uf), "pf">>,
      <<"range", STATE_TO_REGION(uf), "pj">>>>
\* the calls made before control leaves the try block
CallsMade(plan, answers) ==
    {plan[i] : i \in {j \in 1..Len(plan) :
                        \A h \in 1..(j - 1) :
                            answers[plan[h]] \notin FetchFailures}}
Raises(plan, answers) ==
    \E i \in 1..Len(plan) : answers[plan[i]] \in FetchFailures

InitFetch ==
    /\ pc = "input"
    /\ \E n \in 0..MaxFail :
           \E ks \in [1..n -> FetchKeys],
              os \in [1..n -> {"empty"} \cup FetchFailures] :
               fetch_outcome =
                   [k \in FetchKeys |->
                       IF \E i \in 1..n : ks[i] = k
                       THEN os[CHOOSE i \in 1..n : ks[i] = k]
                       ELSE "data"]
    /\ handler = <<"", "">>
    /\ attempted = {}
    /\ fetch_values = <<>>
    /\ IdleRestOfFetch

\* modulo_inad.load_all_data, lines 127-173
LoadAllData ==
    /\ pc = "input"
    /\ handler' = <<"load_all_data", "">>
    /\ attempted' = LoadAllDataPlan
    /\ fetch_values' =
           [k \in LoadAllDataPlan |-> safe_fetch(fetch_outcome[k])]
    /\ pc' = "done"
    /\ UNCHANGED <<fetch_outcome, restOfFetch>>

\* modulo_inad._render_state_detail, lines 590-627: one try block around
\* the four fetches, a warning and return when any of them raises
RenderStateDetail ==
    /\ pc = "input"
    /\ \E uf \in ALL_STATES :
           LET plan == StateDetailPlan(uf) IN
           /\ handler' = <<"_render_state_detail", uf>>
           /\ attempted' = CallsMade(plan, fetch_outcome)
           /\ fetch_values' =
                  [k \in Elems(plan) |->
                      IF Raises(plan, fetch_outcome) THEN "none"
                      ELSE fetch_outcome[k]]
    /\ pc' = "done"
    /\ UNCHANGED <<fetch_outcome, restOfFetch>>

\* modulo_taxas._load_all_latest, lines 330-357: the fetch of each modality
FetchAllLatest ==
    /\ pc = "input"
    /\ handler' = <<"_load_all_latest", "">>
    /\ attempted' = RateKeys
    /\ fetch_values' = [k \in RateKeys |-> safe_fetch(fetch_outcome[k])]
    /\ pc' = "done"
    /\ UNCHANGED <<fetch_outcome, restOfFetch>>

\* modulo_ifdata.render_download_tab, lines 695-704: the two reports of a
\* period, each call of fetch_valores inside its own try block
DownloadValores ==
    /\ pc = "input"
    /\ handler' = <<"render_download_tab", "">>
    /\ attempted' = ValoresKeys
    /\ fetch_values' =
           [k \in ValoresKeys |-> safe_fetch(fetch_valores(fetch_outcome[k]))]
    /\ pc' = "done"
    /\ UNCHANGED <<fetch_outcome, restOfFetch>>

NextFetch ==
    \/ LoadAllData
    \/ RenderStateDetail
    \/ FetchAllLatest
    \/ DownloadValores
SpecFetch == InitFetch /\ [][NextFetch]_vars

\* the fetches a finished handler's query consists of
QueryOf(h) ==
    IF h[1] = "load_all_data" THEN LoadAllDataPlan
    ELSE IF h[1] = "_render_state_detail" THEN Elems(StateDetailPlan(h[2]))
    ELSE IF h[1] = "_load_all_latest" THEN RateKeys
    ELSE ValoresKeys
FetchDone == pc = "done" /\ handler[1] # ""
\* a failed fetch counts as no data, the others keep their data
FailureIsNoData(keys) ==
    \A k \in keys :
        /\ fetch_outcome[k] \in FetchFailures => fetch_values[k] = "none"
        /\ fetch_outcome[k] = "data" => fetch_values[k] = "data"

\* C24: a fetch that raises is treated as no data for that fetch: the
\* handler returns normally, every other fetch of the query is still made
\* and keeps its data.
C24_FailureIsNoDataForThatFetch ==
    FetchDone =>
        /\ pc # "raised"
        /\ attempted = QueryOf(handler)
        /\ FailureIsNoData(QueryOf(handler))

\* the loaders that wrap each fetch in its own try block
PerFetchHandlersIsolateFailures ==
    (FetchDone /\ handler[1] # "_render_state_detail") =>
        /\ attempted = QueryOf(handler)
        /\ FailureIsNoData(QueryOf(handler))

(***************************************************************************)
(* Query results kept in the session: app.py, modulo_ifdata.render and its *)
(* tabs, modulo_sgs.render                                                 *)
(***************************************************************************)
\* One action is one run of the script after one widget event.  The result
\* of the n-th query sent is written n; a key that is absent holds 0.
MaxQueries == 3     \* queries sent in one session

NoKeys ==
    [ifd_ranking_data |-> 0, ifd_bank_data |-> 0, sgs_data |-> 0,
     sgs_codes_dict |-> 0]
NothingShown == [ranking |-> 0, bank |-> 0, sgs |-> 0]

InitSession ==
    /\ pc = "input"
    /\ current_page = "hub"
    /\ session_state = NoKeys
    /\ fetch_count = 0
    /\ shown = NothingShown
    /\ event = [kind |-> "start", ok |-> TRUE]
    /\ IdleRestOfSession

\* app.py go_to and the rerun that renders the module without any event
GoTo ==
    /\ current_page = "hub"
    /\ \E page \in {"ifdata", "sgs"} :
           /\ current_page' = page
           /\ event' = [kind |-> "go_to", ok |-> TRUE]
    /\ shown' = NothingShown
    /\ UNCHANGED <<pc, session_state, fetch_count, restOfSession>>

\* render_ranking_tab lines 409-418: the session after the query block;
\* data is the result of _load_latest_data, 0 for None
render_ranking_tab(ss, query_btn, data) ==
    IF query_btn /\ data # 0 THEN [ss EXCEPT !.ifd_ranking_data = data]
    ELSE ss
\* render_bank_tab lines 509-523
render_bank_tab(ss, query_btn, data) ==
    LET s1 == IF query_btn /\ data # 0 THEN [ss EXCEPT !.ifd_bank_data = data]
              ELSE ss
    IN IF s1.ifd_bank_data = 0 /\ s1.ifd_ranking_data # 0
       THEN [s1 EXCEPT !.ifd_bank_data = s1.ifd_ranking_data]
       ELSE s1

\* modulo_ifdata.render without the back button: the ranking tab, then the
\* bank tab, in one run
RunIfdata ==
    /\ current_page = "ifdata"
    /\ \E has_vars \in BOOLEAN, btn \in {"none", "query_ranking", "query_bank"},
          ok \in BOOLEAN :
           LET n == fetch_count + 1
               queried == btn # "none"
               data == IF ok THEN n ELSE 0
               s1 == IF has_vars
                     THEN render_ranking_tab(session_state,
                                             btn = "query_ranking", data)
                     ELSE session_state
               s2 == render_bank_tab(s1, btn = "query_bank", data)
           IN /\ btn = "query_ranking" => has_vars
              /\ queried => fetch_count < MaxQueries
              /\ ~queried => ok
              /\ fetch_count' = IF queried THEN n ELSE fetch_count
              /\ session_state' = s2
              /\ shown' = [ranking |-> IF has_vars THEN s1.ifd_ranking_data
                                       ELSE 0,
                           bank |-> s2.ifd_bank_data,
                           sgs |-> 0]
              /\ event' = [kind |-> btn, ok |-> ok]
    /\ UNCHANGED <<pc, current_page, restOfSession>>

\* modulo_ifdata.render lines 320-326
BackIfdata ==
    /\ current_page = "ifdata"
    /\ current_page' = "hub"
    /\ session_state' =
           [session_state EXCEPT !.ifd_ranking_data = 0, !.ifd_bank_data = 0]
    /\ shown' = NothingShown
    /\ event' = [kind |-> "back_ifd", ok |-> TRUE]
    /\ UNCHANGED <<pc, fetch_count, restOfSession>>

\* variant of the SGS query block: the codes are stored before the fetch
sgs_query_codes_first(ss, query_btn, data, n) ==
    IF query_btn /\ data # 0
    THEN [ss EXCEPT !.sgs_data = data, !.sgs_codes_dict = data]
    ELSE IF query_btn THEN [ss EXCEPT !.sgs_codes_dict = n]
    ELSE ss

\* modulo_sgs.render lines 671-699: the session after the query block
sgs_query(ss, query_btn, data, n) ==
    IF query_btn /\ data # 0
    THEN [ss EXCEPT !.sgs_data = data, !.sgs_codes_dict = data]
    ELSE ss

\* modulo_sgs.render without the back button, with a series selected
RunSgs ==
    /\ current_page = "sgs"
    /\ \E btn \in {"none", "query_sgs"}, ok \in BOOLEAN :
           LET n == fetch_count + 1
               queried == btn # "none"
               data == IF ok THEN n ELSE 0
               s1 == sgs_query(session_state, queried, data, n)
           IN /\ queried => fetch_count < MaxQueries
              /\ ~queried => ok
              /\ fetch_count' = IF queried THEN n ELSE fetch_count
              /\ session_state' = s1
              /\ shown' = [ranking |-> 0, bank |-> 0,
                           sgs |-> IF queried /\ ~ok THEN 0 ELSE s1.sgs_data]
              /\ event' = [kind |-> btn, ok |-> ok]
    /\ UNCHANGED <<pc, current_page, restOfSession>>

\* modulo_sgs.render lines 425-430
BackSgs ==
    /\ current_page = "sgs"
    /\ current_page' = "hub"
    /\ session_state' =
           [session_state EXCEPT !.sgs_data = 0, !.sgs_codes_dict = 0]
    /\ shown' = NothingShown
    /\ event' = [kind |-> "back_sgs", ok |-> TRUE]
    /\ UNCHANGED <<pc, fetch_count, restOfSession>>

NextSession ==
    \/ GoTo
    \/ RunIfdata
    \/ BackIfdata
    \/ RunSgs
    \/ BackSgs
SpecSession == InitSession /\ [][NextSession]_vars

QueryEvents == {"query_ranking", "query_bank", "query_sgs"}
RequeryDone == event.kind \in QueryEvents /\ event.ok /\ fetch_count > 1

\* C25: after Back to hub the page is the hub and no query result of the
\* module is left in the session; after a successful re-query every view of
\* the module that shows a result shows the newly fetched one.
C25_DiscardedOnBackAndRequery ==
    /\ event.kind = "back_ifd" =>
           /\ current_page = "hub"
           /\ session_state.ifd_ranking_data = 0
           /\ session_state.ifd_bank_data = 0
    /\ event.kind = "back_sgs" =>
           /\ current_page = "hub"
           /\ session_state.sgs_data = 0
           /\ session_state.sgs_codes_dict = 0
    /\ RequeryDone =>
           /\ shown.ranking \in {0, fetch_count}
           /\ shown.bank \in {0, fetch_count}
           /\ shown.sgs \in {0, fetch_count}

\* the part about navigation, and the view the query was made in
DiscardedOnBack ==
    /\ event.kind = "back_ifd" =>
           /\ current_page = "hub"
           /\ session_state.ifd_ranking_data = 0
           /\ session_state.ifd_bank_data = 0
    /\ event.kind = "back_sgs" =>
           /\ current_page = "hub"
           /\ session_state.sgs_data = 0
           /\ session_state.sgs_codes_dict = 0
    /\ (event.ok /\ event.kind = "query_ranking") => shown.ranking = fetch_count
    /\ (event.ok /\ event.kind = "query_bank") => shown.bank = fetch_count
    /\ (event.ok /\ event.kind = "query_sgs") => shown.sgs = fetch_count

(***************************************************************************)
(* modulo_sgs.render: the list of selected series                          *)
(***************************************************************************)
MaxSeries == 3      \* entries of the list
MaxParts == 2       \* comma-separated parts of one typed submission

\* two series of POPULAR_SERIES: code -> name
PopularCodes == {11, 12}
SeriesName(code) == IF code = 11 THEN "Selic Over" ELSE "CDI"
\* _SERIES_LOOKUP.get(code): the default name of a typed code
default_name(code) == IF code \in PopularCodes THEN SeriesName(code) ELSE ""

\* typed parts, as characters: "11", " 11 ", "011", "7", "x"
PartChoices ==
    {<<"1", "1">>, <<" ", "1", "1", " ">>, <<"0", "1", "1">>, <<"7">>,
     <<"x">>}
Digits == <<"0", "1", "2", "3", "4", "5", "6", "7", "8", "9">>
IsDigitChar(c) == \E k \in 1..10 : Digits[k] = c
RECURSIVE lstrip(_)
lstrip(part) ==
    IF part # <<>> /\ Head(part) = " " THEN lstrip(Tail(part)) ELSE part
RECURSIVE rstrip(_)
rstrip(part) ==
    IF part # <<>> /\ part[Len(part)] = " "
    THEN rstrip(SubSeq(part, 1, Len(part) - 1))
    ELSE part
\* part.strip()
strip(part) == rstrip(lstrip(part))
\* part.isdigit()
isdigit(part) ==
    part # <<>> /\ \A i \in 1..Len(part) : IsDigitChar(part[i])
\* int(part)
RECURSIVE IntOf(_)
IntOf(part) ==
    IF part = <<>> THEN 0
    ELSE 10 * IntOf(SubSeq(part, 1, Len(part) - 1))
         + (CHOOSE k \in 1..10 : Digits[k] = part[Len(part)]) - 1

SeriesList(items) == [kind |-> "list", items |-> items]
already_added(items, code) == \E i \in 1..Len(items) : items[i].code = code

\* variant of add_codes: a code is compared with the list as it was before
\* the submission
RECURSIVE add_codes_snapshot(_, _)
add_codes_snapshot(items, parts) ==
    IF parts = <<>> THEN items
    ELSE LET before == add_codes_snapshot(items,
                                          SubSeq(parts, 1, Len(parts) - 1))
             part == strip(parts[Len(parts)])
         IN IF isdigit(part) /\ ~already_added(items, IntOf(part))
            THEN Append(before, [code |-> IntOf(part),
                                 name |-> default_name(IntOf(part))])
            ELSE before

\* lines 521-530: the loop over codes_input.split(",")
RECURSIVE add_codes(_, _)
add_codes(items, parts) ==
    IF parts = <<>> THEN items
    ELSE LET part == strip(Head(parts)) IN
         IF isdigit(part) /\ ~already_added(items, IntOf(part))
         THEN add_codes(Append(items, [code |-> IntOf(part),
                                       name |-> default_name(IntOf(part))]),
                        Tail(parts))
         ELSE add_codes(items, Tail(parts))

InitSeries ==
    /\ pc = "input"
    /\ sgs_series_list = SeriesList(<<>>)
    /\ list_op = [kind |-> "start", parts |-> <<>>]
    /\ IdleRestOfSeries

\* lines 483-507 and 543-549: the add button of a search result or of a
\* popular series, enabled when the code is not in the list
AddSeries ==
    /\ \E code \in PopularCodes, kind \in {"search_add", "pop"} :
           /\ ~already_added(sgs_series_list.items, code)
           /\ Len(sgs_series_list.items) < MaxSeries
           /\ sgs_series_list' =
                  SeriesList(Append(sgs_series_list.items,
                                    [code |-> code, name |-> SeriesName(code)]))
           /\ list_op' = [kind |-> kind, parts |-> <<>>]
    /\ UNCHANGED <<pc, restOfSeries>>

\* lines 519-531: the add button of the typed code list
AddCodes ==
    /\ \E n \in 1..MaxParts :
           \E parts \in [1..n -> PartChoices] :
               /\ Len(add_codes(sgs_series_list.items, parts)) <= MaxSeries
               /\ sgs_series_list' =
                      SeriesList(add_codes(sgs_series_list.items, parts))
               /\ list_op' = [kind |-> "add_codes_btn", parts |-> parts]
    /\ UNCHANGED <<pc, restOfSeries>>

\* lines 581-587: the name field of one entry
Rename ==
    /\ \E idx \in 1..Len(sgs_series_list.items), new_name \in {"", "meu"} :
           /\ sgs_series_list' =
                  SeriesList([sgs_series_list.items
                                 EXCEPT ![idx].name = new_name])
           /\ list_op' = [kind |-> "name", parts |-> <<>>]
    /\ UNCHANGED <<pc, restOfSeries>>

\* lines 601-608: the remove button of one entry
Remove ==
    /\ \E idx \in 1..Len(sgs_series_list.items) :
           /\ sgs_series_list' =
                  SeriesList(SubSeq(sgs_series_list.items, 1, idx - 1)
                             \o SubSeq(sgs_series_list.items, idx + 1,
                                       Len(sgs_series_list.items)))
           /\ list_op' = [kind |-> "remove", parts |-> <<>>]
    /\ UNCHANGED <<pc, restOfSeries>>

\* lines 610-613
ClearAll ==
    /\ Len(sgs_series_list.items) > 1
    /\ sgs_series_list' = SeriesList(<<>>)
    /\ list_op' = [kind |-> "clear_all", parts |-> <<>>]
    /\ UNCHANGED <<pc, restOfSeries>>

NextSeries ==
    \/ AddSeries
    \/ AddCodes
    \/ Rename
    \/ Remove
    \/ ClearAll
SpecSeries == InitSeries /\ [][NextSeries]_vars

\* C26: whatever sequence of add, rename, remove and clear-all operations
\* is made, no two entries of the selected-series list have the same code.
C26_UniqueCodes ==
    \A i, j \in 1..Len(sgs_series_list.items) :
        sgs_series_list.items[i].code = sgs_series_list.items[j].code => i = j
\* a typed submission that names code 11 twice left one entry for it
C26_Witness ==
    /\ list_op.kind = "add_codes_btn"
    /\ Len(list_op.parts) = 2
    /\ list_op.parts[1] # list_op.parts[2]
    /\ isdigit(strip(list_op.parts[1]))
    /\ isdigit(strip(list_op.parts[2]))
    /\ IntOf(strip(list_op.parts[1])) = 11
    /\ IntOf(strip(list_op.parts[2])) = 11
    /\ sgs_series_list.items[Len(sgs_series_list.items)].code = 11
    /\ Len(sgs_series_list.items) > 1

\* a stored result gives way to another one
Replaced(old, new) == old # 0 /\ new # 0 /\ new # old
FailedQuery == event'.kind \in QueryEvents /\ ~event'.ok
SuccessfulQuery(kind) ==
    event'.kind = kind /\ event'.ok /\ fetch_count' = fetch_count + 1

\* C27: a failed query leaves the stored results as they were; a stored
\* IF.Data dataset is replaced only by the non-None result of a query of
\* its own tab, sgs_data and sgs_codes_dict only by a query that succeeded,
\* and the two SGS keys are present together or absent together.
C27_FailedQueryKeepsResult ==
    [][/\ FailedQuery => session_state' = session_state
       /\ Replaced(session_state.ifd_ranking_data,
                   session_state'.ifd_ranking_data) =>
              /\ SuccessfulQuery("query_ranking")
              /\ session_state'.ifd_ranking_data = fetch_count'
       /\ Replaced(session_state.ifd_bank_data,
                   session_state'.ifd_bank_data) =>
              /\ SuccessfulQuery("query_bank")
              /\ session_state'.ifd_bank_data = fetch_count'
       /\ (session_state'.sgs_data # session_state.sgs_data
           \/ session_state'.sgs_codes_dict # session_state.sgs_codes_dict) =>
              \/ /\ SuccessfulQuery("query_sgs")
                 /\ session_state'.sgs_data = fetch_count'
                 /\ session_state'.sgs_codes_dict = fetch_count'
              \/ event'.kind = "back_sgs"
       /\ session_state'.sgs_data = session_state'.sgs_codes_dict
      ]_vars
\* a query failed while a result of an earlier query was stored
C27_Witness ==
    /\ event.kind = "query_sgs"
    /\ ~event.ok
    /\ session_state.sgs_data # 0
    /\ session_state.sgs_codes_dict = session_state.sgs_data
    /\ fetch_count > session_state.sgs_data

(***************************************************************************)
(* modulo_spi.render: the spi_queried flag                                 *)
(***************************************************************************)
\* One action is one run of render after one widget event.  No statement
\* of the module stores the key spi_data.
MaxSpiDays == 3     \* days the date widgets can be set to
MaxSpiFetches == 3  \* calls of fetch_spi_data in one session

SpiDates == {d \in [start : 1..MaxSpiDays, end : 1..MaxSpiDays] :
                d.start <= d.end}
spi_data_stored == FALSE

\* variant of spi_queried_after: the flag is not reset
spi_queried_kept(stored, query_btn, old) ==
    IF query_btn \/ old = "true" THEN "true" ELSE "false"

\* lines 223-227: the flag after the reset and the button test
spi_queried_after(stored, query_btn, old) ==
    LET reset == IF ~stored THEN "false" ELSE old
    IN IF query_btn THEN "true" ELSE reset

InitSpi ==
    /\ pc = "input"
    /\ spi_queried = "absent"
    /\ spi_dates = [start |-> 1, end |-> MaxSpiDays]
    /\ spi_view = "hub"
    /\ spi_event = "start"
    /\ spi_fetches = 0
    /\ IdleRestOfSpi

\* modulo_spi.render lines 168-255 after a widget event other than the
\* back button; answer is what fetch_spi_data does when it is called
RunSpi ==
    /\ \E ev \in {"go_to", "query_spi", "start_date", "end_date",
                  "comp_a_start"},
          d \in SpiDates, answer \in {"error", "no_data", "data"} :
           LET queried == spi_queried_after(spi_data_stored,
                                            ev = "query_spi", spi_queried)
           IN /\ ev = "go_to" <=> spi_view = "hub"
              /\ ev = "comp_a_start" => spi_view = "data"
              /\ ev = "start_date" =>
                     (d.start # spi_dates.start /\ d.end = spi_dates.end)
              /\ ev = "end_date" =>
                     (d.end # spi_dates.end /\ d.start = spi_dates.start)
              /\ ev \notin {"start_date", "end_date"} => d = spi_dates
              /\ queried = "true" => spi_fetches < MaxSpiFetches
              /\ queried # "true" => answer = "data"
              /\ spi_queried' = queried
              /\ spi_dates' = d
              /\ spi_event' = ev
              /\ spi_fetches' =
                     IF queried = "true" THEN spi_fetches + 1 ELSE spi_fetches
              /\ spi_view' = IF queried = "true" THEN answer ELSE "prompt"
    /\ UNCHANGED <<pc, restOfSpi>>

\* modulo_spi.render lines 172-174
BackSpi ==
    /\ spi_view # "hub"
    /\ spi_view' = "hub"
    /\ spi_event' = "back_to_hub"
    /\ UNCHANGED <<pc, spi_queried, spi_dates, spi_fetches, restOfSpi>>

NextSpi ==
    \/ RunSpi
    \/ BackSpi
SpecSpi == InitSpi /\ [][NextSpi]_vars

SpiRunEvents ==
    {"go_to", "query_spi", "start_date", "end_date", "comp_a_start"}

\* C28: after every run of render spi_queried is true exactly when the
\* query button was pressed in that run; data is fetched and displayed only
\* in such a run, and a rerun caused by any other widget ends at the
\* 'click query' prompt.
C28_QueriedOnlyInButtonRun ==
    spi_event \in SpiRunEvents =>
        /\ spi_queried = (IF spi_event = "query_spi" THEN "true" ELSE "false")
        /\ spi_view \in {"data", "no_data", "error"} <=>
               spi_event = "query_spi"
        /\ spi_event # "query_spi" => spi_view = "prompt"
\* a comparison date was changed while data was on display
C28_Witness ==
    /\ spi_event = "comp_a_start"
    /\ spi_view = "prompt"
    /\ spi_fetches > 0

(***************************************************************************)
(* modulo_ifdata.find_latest_quarter                                       *)
(***************************************************************************)
MaxYears == 2        \* years that today is drawn from
FirstYear == 2024
CandidateCount == 6  \* range(6)

\* variant of q_month: the first month of the quarter
q_month_first(m) == ((m - 1) \div 3) * 3 + 1

\* line 116: the last month of the quarter of month m
q_month(m) == ((m - 1) \div 3) * 3 + 3
\* lines 114-121: the candidates still to be built from year y, month m
RECURSIVE build_candidates(_, _, _)
build_candidates(y, m, count) ==
    IF count = 0 THEN <<>>
    ELSE <<y * 100 + q_month(m)>>
         \o (IF m - 3 <= 0
             THEN build_candidates(y - 1, m - 3 + 12, count - 1)
             ELSE build_candidates(y, m - 3, count - 1))
\* lines 123-129: the position of the first candidate whose fetch returns a
\* table that is neither None nor empty, 0 when there is none
FirstWithData(ans) ==
    IF \E i \in 1..Len(ans) : ans[i] = "data"
    THEN CHOOSE i \in 1..Len(ans) :
             ans[i] = "data" /\ \A j \in 1..(i - 1) : ans[j] # "data"
    ELSE 0

InitQuarter ==
    /\ pc = "input"
    /\ today \in [y : FirstYear..(FirstYear + MaxYears - 1), m : 1..12]
    /\ quarter_answers \in
           [1..CandidateCount -> {"data", "empty", "None", "error"}]
    /\ candidates = None
    /\ tried = 0
    /\ latest_quarter = 0
    /\ IdleRestOfQuarter

\* find_latest_quarter, lines 104-131
FindLatestQuarter ==
    /\ pc = "input"
    /\ LET cs == build_candidates(today.y, today.m, CandidateCount)
           hit == FirstWithData(quarter_answers)
       IN /\ candidates' = [kind |-> "list", items |-> cs]
          /\ tried' = IF hit = 0 THEN Len(cs) ELSE hit
          /\ latest_quarter' = IF hit = 0 THEN cs[Len(cs)] ELSE cs[hit]
    /\ pc' = "done"
    /\ UNCHANGED <<today, quarter_answers, restOfQuarter>>

NextQuarter == FindLatestQuarter
SpecQuarter == InitQuarter /\ [][NextQuarter]_vars

QuarterDone == pc = "done" /\ latest_quarter # 0
\* the quarter-end before the quarter-end p
PreviousQuarterEnd(p) == IF (p % 100) = 3 THEN p - 100 + 9 ELSE p - 3
IsQuarterEnd(p) == (p % 100) \in {3, 6, 9, 12}

\* C29: the candidates are 6 distinct, strictly decreasing, consecutive
\* quarter-ends that start with the quarter containing today; they are
\* tried in that order, the first one whose fetch returns a non-empty table
\* is returned, a fetch that raises counts as no data, and the oldest
\* candidate is returned when none has data.
C29_LatestQuarter ==
    QuarterDone =>
        LET cs == candidates.items IN
        /\ Len(cs) = 6
        /\ \A i \in 1..Len(cs) : IsQuarterEnd(cs[i])
        /\ cs[1] \div 100 = today.y
        /\ (cs[1] % 100) >= today.m
        /\ (cs[1] % 100) - 3 < today.m
        /\ \A i \in 1..(Len(cs) - 1) :
               cs[i + 1] = PreviousQuarterEnd(cs[i]) /\ cs[i + 1] < cs[i]
        /\ \A i, j \in 1..Len(cs) : cs[i] = cs[j] => i = j
        /\ \A i \in 1..Len(cs) :
               (/\ quarter_answers[i] = "data"
                /\ \A j \in 1..(i - 1) : quarter_answers[j] # "data")
                   => (latest_quarter = cs[i] /\ tried = i)
        /\ (\A i \in 1..Len(cs) : quarter_answers[i] # "data")
               => (latest_quarter = cs[Len(cs)] /\ tried = Len(cs))
\* the newest quarter raises, the next is empty, the third has data and lies
\* in the year before today's
C29_Witness ==
    /\ QuarterDone
    /\ quarter_answers[1] = "error"
    /\ quarter_answers[2] = "empty"
    /\ quarter_answers[3] = "data"
    /\ latest_quarter = candidates.items[3]
    /\ latest_quarter \div 100 < today.y

(***************************************************************************)
(* modulo_ifdata.render_download_tab: validation and the period loop       *)
(***************************************************************************)
MaxDlYears == 4      \* years the two period inputs are drawn from
FirstDlYear == 2022
MonthsLimit == 24    \* months_diff > 24

\* the month part of a typed period: quarter-ends and other values
DlMonths == {0, 3, 4, 6, 9, 12, 13}
DlInputs ==
    {y * 100 + m : y \in FirstDlYear..(FirstDlYear + MaxDlYears - 1),
                   m \in DlMonths}

\* variant of months_diff: whole years only
months_diff_years(start, end) == ((end \div 100) - (start \div 100)) * 12

\* lines 646-647, 653: divmod(.., 100) of both inputs and their distance
months_diff(start, end) ==
    ((end \div 100) - (start \div 100)) * 12 + ((end % 100) - (start % 100))
\* lines 649-660: the checks that let the run go on
download_valid(start, end) ==
    /\ (start % 100) \in {3, 6, 9, 12}
    /\ (end % 100) \in {3, 6, 9, 12}
    /\ ~(months_diff(start, end) > MonthsLimit)
    /\ ~(months_diff(start, end) < 0)
\* lines 667-670: the cursor after one iteration
next_period(cur) ==
    IF cur.m + 3 > 12 THEN [y |-> cur.y + 1, m |-> 3]
    ELSE [y |-> cur.y, m |-> cur.m + 3]

InitDownload ==
    /\ pc = "input"
    /\ dl_start \in DlInputs
    /\ dl_end \in DlInputs
    /\ dl_cursor = None
    /\ periods = None
    /\ IdleRestOfDownload

\* lines 646-664: validation, then periods = [] and y, m = start_y, start_m
ValidateDownload ==
    /\ pc = "input"
    /\ IF download_valid(dl_start, dl_end)
       THEN /\ pc' = "loop"
            /\ dl_cursor' = [y |-> dl_start \div 100, m |-> dl_start % 100]
            /\ periods' = [kind |-> "list", items |-> <<>>]
       ELSE /\ pc' = "rejected"
            /\ UNCHANGED <<dl_cursor, periods>>
    /\ UNCHANGED <<dl_start, dl_end, restOfDownload>>

\* lines 665-670: one test of the while condition and one iteration
LoopStep ==
    /\ pc = "loop"
    /\ IF dl_cursor.y * 100 + dl_cursor.m <= dl_end
       THEN /\ periods' =
                   [kind |-> "list",
                    items |-> Append(periods.items,
                                     dl_cursor.y * 100 + dl_cursor.m)]
            /\ dl_cursor' = next_period(dl_cursor)
            /\ pc' = "loop"
       ELSE /\ pc' = "fetch"
            /\ UNCHANGED <<dl_cursor, periods>>
    /\ UNCHANGED <<dl_start, dl_end, restOfDownload>>

NextDownload ==
    \/ ValidateDownload
    \/ LoopStep
SpecDownload == InitDownload /\ [][NextDownload]_vars

\* quarter-ends counted from year 0, and back
QuarterIndex(p) == (p \div 100) * 4 + ((p % 100) \div 3) - 1
QuarterEndOf(q) == (q \div 4) * 100 + ((q % 4) + 1) * 3
\* the quarter-ends from start to end, both included
QuarterEnds(start, end) ==
    [i \in 1..(QuarterIndex(end) - QuarterIndex(start) + 1) |->
        QuarterEndOf(QuarterIndex(start) + i - 1)]
MonthsApart(start, end) ==
    ((end \div 100) * 12 + (end % 100)) - ((start \div 100) * 12 + (start % 100))

\* C30: the loop and the fetch are reached only when both inputs have a
\* month in {3, 6, 9, 12} and end - start is between 0 and 24 months; the
\* loop then ends with exactly the quarter-ends from start to end, in
\* ascending order without repetition, at most 9 of them.
C30_PeriodLoop ==
    pc \in {"loop", "fetch"} =>
        /\ (dl_start % 100) \in {3, 6, 9, 12}
        /\ (dl_end % 100) \in {3, 6, 9, 12}
        /\ MonthsApart(dl_start, dl_end) >= 0
        /\ MonthsApart(dl_start, dl_end) <= 24
        /\ Len(periods.items) <= 9
        /\ Len(periods.items) <= Len(QuarterEnds(dl_start, dl_end))
        /\ \A i \in 1..Len(periods.items) :
               periods.items[i] = QuarterEnds(dl_start, dl_end)[i]
        /\ \A i \in 1..(Len(periods.items) - 1) :
               periods.items[i] < periods.items[i + 1]
        /\ pc = "fetch" => periods.items = QuarterEnds(dl_start, dl_end)
\* the longest range: 9 periods over two turns of the year
C30_Witness ==
    /\ pc = "fetch"
    /\ Len(periods.items) = 9
    /\ (periods.items[1] % 100) = 12
    /\ periods.items[9] \div 100 = (periods.items[1] \div 100) + 2
====
